---- MODULE Spec2Model ----
(***************************************************************************)
(* Verification model of the Flatr store (src/flatrstore.py), its update   *)
(* daemon (src/updater.py) and the quick list reader of                    *)
(* src/flatdroid-garden-opendoor.py.                                       *)
(*                                                                         *)
(* Text is modelled as a sequence of one-character strings, so that        *)
(* sanitising, trimming, splitting and digit-run extraction are computed   *)
(* the way the Python code computes them.  The module holds one            *)
(* specification per component; every specification keeps the variables    *)
(* of the other components at their idle values.                           *)
(*   SpecCache    icon cache (save_icon_to_cache_unique)                   *)
(*   SpecVersion  update-availability decisions of store and daemon        *)
(*   SpecList     catalog list parsing                                     *)
(*   SpecSync     RepoFetchThread.run, one catalog sync pass               *)
(*   SpecInstall  detail dialog + InstallThread.run on the install root    *)
(*   SpecRun      InstallThread.run started again for the same entry       *)
(*   SpecDaemon   updater.daemon_loop / update_app, VersionCheckThread     *)
(*   SpecDaemonLive  SpecDaemon with the daemon loop running on            *)
(*   SpecStartup  MainWindow.__init__, the fetch thread and its handlers   *)
(*   SpecParse    parse_details_xml and parse_details on one document      *)
(*   SpecWorkers  two fetch threads inside save_icon_to_cache_unique       *)
(*   SpecReplace  InstallThread.run statement by statement, with a reader  *)
(*   SpecRoot     installs and daemon passes on the installation root      *)
(*   SpecPair     installs of two entries of one deduplicated catalog      *)
(*   SpecStore    the store's list, detail dialog and version check timer  *)
(***************************************************************************)
EXTENDS Integers, Sequences, FiniteSets, TLC

VARIABLES
    \* ---- icon cache (ICON_CACHE_DIR, ICON_INDEX_FILE) ----
    iconFiles,      \* file name in ICON_CACHE_DIR -> bytes
    iconIndex,      \* index.json: content hash -> stored path
    cacheLog,       \* history: one record per save_icon_to_cache_unique call
    \* ---- update-availability decisions ----
    verLocal,       \* installed version string
    verRemote,      \* catalog / remote version string
    verPhase,       \* "input" | "store" | "daemon"
    verStore,       \* update_available as flatrstore.py decides it
    verDaemon,      \* whether updater.update_app rewrites the install
    \* ---- catalog list parsing ----
    listBody,       \* body of the catalog list response
    listPhase,      \* "input" | "store" | "quick"
    slugsStore,     \* tokens of RepoFetchThread.run
    slugsQuick,     \* tokens of fetch_repo_list_quick
    \* ---- catalog sync pass (RepoFetchThread) ----
    syncPc,         \* "idle" | "fetching" | "done"
    syncList,       \* the catalog list response of the pass
    syncRepos,      \* repos: the parsed slugs
    syncNext,       \* loop position in repos (1-based)
    syncResults,    \* results: the entries resolved so far
    syncSignal,     \* "none" | "finished" | "error": the signal emitted
    syncEmitted,    \* payload of finished_fetch
    syncFetched,    \* history: per slug, how its three sub-fetches answered
    catalogCache,   \* repos_cache.json: [present, entries]
    \* ---- installation root (INSTALL_BASE) ----
    installRoot,    \* directory name -> directory
    \* ---- detail dialog (AppDetailDialog) ----
    dlgOpen,        \* a detail dialog is showing
    dlgInfo,        \* its self.info
    dlgInstallEnabled,      \* install_btn.isEnabled()
    dlgUninstallEnabled,    \* uninstall_btn.isEnabled()
    \* ---- install operation (InstallThread) ----
    instPc,         \* "idle" | "pending" | "downloading" | "finalizing" | "done"
    instInfo,       \* self.info of the thread
    instCancelled,  \* self._cancelled
    instChunksLeft, \* chunks the response stream still has to deliver
    instArchive,    \* the archive the response carries
    tmpFile,        \* the mkstemp file exists
    tmpExtractDir,  \* the mkdtemp directory: [present, entries]
    instOutcome,    \* "none" | "completed" | "failed" | "cancelled"
    instSignals,    \* finished_install emissions not yet delivered to the dialog
    instMidCancel,  \* history: cancel() was called with chunks still to come
    instFd,         \* the descriptor mkstemp returned is open
    instRootBefore, \* history: INSTALL_BASE when the thread was started
    instReruns,     \* threads started again for the entry of a finished one
    onWindows,      \* platform.system() == "Windows"
    \* ---- update daemon (updater.py) ----
    appFolders,     \* folders below "Flatr Apps" that hold a details.xml:
                    \* folder number -> (file name -> content)
    daemonPc,       \* "sleeping" | "walking"
    daemonNext,     \* the folder the walk of daemon_loop reaches next
    daemonTicks,    \* passes of daemon_loop started
    daemonEvents,   \* events of the pass: [updated, no_updates]
    daemonChanged,  \* history: folders whose files the pass changed
    daemonChecked,  \* history: the update_app calls of the pass, in order
    daemonLast,     \* history: the last update_app call
    \* ---- periodic version check of the store (VersionCheckThread) ----
    vcRepoList,     \* MainWindow.repo_list
    vcEvents,       \* signals of the last check: [updates, no_updates]
    \* ---- main window of the store (MainWindow) ----
    uiStarted,      \* MainWindow.__init__ has run
    uiWidget,       \* content_stack.currentWidget(): "grid" | "offline"
    uiGrid,         \* the entries grid_view was last populated with
    uiHandled,      \* the signal of the fetch thread reached its handler
    \* ---- the two descriptor parsers applied to one document ----
    parseIn,        \* the document handed to the parsers
    parseOut,       \* [storeDone, store, daemonDone, daemon]
    \* ---- fetch threads inside save_icon_to_cache_unique ----
    iconWorkers,    \* thread -> [pc, content, base, idx, path, left]
    \* ---- the moves of InstallThread.run one by one, and a reader ----
    instMoved,      \* names of the extracted entries moved so far
    resolverSeen    \* what installed_version_for last found at the destination

cacheVars == <<iconFiles, iconIndex, cacheLog>>
verVars   == <<verLocal, verRemote, verPhase, verStore, verDaemon>>
listVars  == <<listBody, listPhase, slugsStore, slugsQuick>>
syncVars  == <<syncPc, syncList, syncRepos, syncNext, syncResults, syncSignal,
               syncEmitted, syncFetched, catalogCache>>
rootVars  == <<installRoot>>
dlgVars   == <<dlgOpen, dlgInfo, dlgInstallEnabled, dlgUninstallEnabled>>
instVars  == <<instPc, instInfo, instCancelled, instChunksLeft, instArchive,
               tmpFile, tmpExtractDir, instOutcome, instSignals, instMidCancel,
               instFd, instRootBefore, instReruns, onWindows>>
daemonVars == <<appFolders, daemonPc, daemonNext, daemonTicks, daemonEvents,
                daemonChanged, daemonChecked, daemonLast, vcRepoList, vcEvents>>
uiVars    == <<uiStarted, uiWidget, uiGrid, uiHandled>>
parseVars == <<parseIn, parseOut>>
replaceVars == <<instMoved, resolverSeen>>
vars      == <<cacheVars, verVars, listVars, syncVars, rootVars, dlgVars, instVars,
               daemonVars, uiVars, parseVars, iconWorkers, replaceVars>>

\* What each component leaves alone.
cacheOthers == <<verVars, listVars, syncVars, rootVars, dlgVars, instVars, daemonVars, uiVars, parseVars, iconWorkers, replaceVars>>
verOthers   == <<cacheVars, listVars, syncVars, rootVars, dlgVars, instVars, daemonVars, uiVars, parseVars, iconWorkers, replaceVars>>
listOthers  == <<cacheVars, verVars, syncVars, rootVars, dlgVars, instVars, daemonVars, uiVars, parseVars, iconWorkers, replaceVars>>
syncOthers  == <<cacheLog, verVars, listVars, rootVars, dlgVars, instVars, daemonVars, uiVars, parseVars, iconWorkers, replaceVars>>
instOthers  == <<cacheVars, verVars, listVars, syncVars, daemonVars, uiVars, parseVars, iconWorkers, replaceVars>>
daemonOthers == <<cacheVars, verVars, listVars, syncVars, rootVars, dlgVars, instVars,
                  uiVars, parseVars, iconWorkers, replaceVars>>
uiOthers    == <<cacheVars, verVars, listVars, rootVars, dlgVars, instVars, parseVars,
                 iconWorkers, replaceVars>>
parseOthers == <<cacheVars, verVars, listVars, syncVars, rootVars, dlgVars, instVars,
                 daemonVars, uiVars, iconWorkers, replaceVars>>
workerOthers == <<verVars, listVars, syncVars, rootVars, dlgVars, instVars,
                  daemonVars, uiVars, parseVars, replaceVars>>
replaceOthers == <<cacheVars, verVars, listVars, syncVars, dlgVars, daemonVars, uiVars,
                   parseVars, iconWorkers>>
\* What only the start of a thread sets.
instFixed   == <<instRootBefore, instReruns, onWindows>>

(***************************************************************************)
(* Bounds of the model.                                                    *)
(***************************************************************************)
MaxCalls == 3       \* save_icon_to_cache_unique calls in one behaviour
MaxVerLen == 3      \* length of the enumerated version strings
MaxBodyLen == 4     \* length of the enumerated catalog list bodies
MaxChunks == 2      \* chunks of one archive download
MaxReruns == 1      \* threads started again for the same entry
MaxTicks == 2       \* passes of daemon_loop
MaxIconJobs == 2    \* icons each fetch thread stores
MaxInstalls == 2    \* installs started from one catalog

(***************************************************************************)
(* Text helpers.                                                           *)
(***************************************************************************)
Letters == {"a", "b", "c", "d", "e", "i", "k", "l", "m", "n", "o", "p",
            "r", "s", "t", "u", "v", "w", "x", "y"}
Digits == {"0", "1", "2", "3", "4", "5", "6", "7", "8", "9"}

\* Python's str.strip() / re \s whitespace, as far as the model's alphabet goes.
IsSpace(c) == c \in {" ", "\n", "\r", "\t"}

\* re's \w for str patterns: alphanumerics and the underscore.
IsWordChar(c) == c \in Letters \cup Digits \cup {"_"}

RECURSIVE LStrip(_)
LStrip(s) ==
    IF s = <<>> THEN <<>>
    ELSE IF IsSpace(Head(s)) THEN LStrip(Tail(s)) ELSE s

RECURSIVE RStrip(_)
RStrip(s) ==
    IF s = <<>> THEN <<>>
    ELSE IF IsSpace(s[Len(s)]) THEN RStrip(SubSeq(s, 1, Len(s) - 1)) ELSE s

Strip(s) == RStrip(LStrip(s))

\* html.unescape: a character reference is one element of the sequence
\* ("&amp;" is the only one the model's inputs carry) and becomes the
\* character it names.
HtmlUnescape(s) == [i \in 1..Len(s) |-> IF s[i] = "&amp;" THEN "&" ELSE s[i]]

Unknown == <<"u", "n", "k", "n", "o", "w", "n">>

safe_name(s) ==
    LET t == Strip(HtmlUnescape(s))
        r == [i \in 1..Len(t) |->
                IF IsWordChar(t[i]) \/ t[i] \in {".", "-"} THEN t[i] ELSE "_"]
    IN  IF r = <<>> THEN Unknown ELSE r

\* str(i) for a natural number.
RECURSIVE IntStr(_)
IntStr(i) ==
    LET d == <<"0", "1", "2", "3", "4", "5", "6", "7", "8", "9">>
    IN  IF i < 10 THEN <<d[i + 1]>> ELSE IntStr(i \div 10) \o <<d[(i % 10) + 1]>>

\* All sequences over alphabet A of length at most n.
RECURSIVE SeqsUpTo(_, _)
SeqsUpTo(A, n) ==
    IF n = 0 THEN {<<>>}
    ELSE LET shorter == SeqsUpTo(A, n - 1)
         IN  shorter \cup {Append(s, c) : s \in shorter, c \in A}

(***************************************************************************)
(* Icon cache: load_icon_index, save_icon_index, icon_hash,                *)
(* save_icon_to_cache_unique.                                              *)
(***************************************************************************)
IcoExt == <<".", "i", "c", "o">>

\* SHA-1 of the bytes, taken to be collision free: the digest is the tagged
\* byte sequence.
icon_hash(content) == <<"sha1", content>>

\* f"{safe_name(publisher)}.{safe_name(name)}.{safe_name(version)}"  (Path.stem
\* of the file name built at line 460).
IconStem(publisher, name, version) ==
    safe_name(publisher) \o <<".">> \o safe_name(name) \o <<".">> \o safe_name(version)

\* f"{base}_{i}.ico"
IconCandidate(base, i) == base \o <<"_">> \o IntStr(i) \o IcoExt

\* The while-loop of lines 465-470: the first i >= 1 whose candidate is free.
RECURSIVE FirstFreeSuffix(_, _, _)
FirstFreeSuffix(files, base, i) ==
    IF IconCandidate(base, i) \notin DOMAIN files THEN i
    ELSE FirstFreeSuffix(files, base, i + 1)

\* A mutant of IconPath: the name collision is not looked at.
IconPathOverwrite(files, base) == base \o IcoExt

\* Lines 460-470: the path the new icon file is written to.
IconPath(files, base) ==
    IF (base \o IcoExt) \in DOMAIN files
    THEN IconCandidate(base, FirstFreeSuffix(files, base, 1))
    ELSE base \o IcoExt

\* A mutant of IndexHit: the index is never consulted.
IndexHitNever(idx, h) == FALSE

\* Line 458: `h in idx`.
IndexHit(idx, h) == h \in DOMAIN idx

NoPath == <<>>      \* the None that save_icon_to_cache_unique returns

\* save_icon_to_cache_unique(repo, publisher, name, version, content) on the
\* cache (files, idx): the returned path and hash and the cache afterwards.
\* The file system calls succeed.
save_icon_to_cache_unique(files, idx, publisher, name, version, content) ==
    LET h    == icon_hash(content)
        base == IconStem(publisher, name, version)
        path == IconPath(files, base)
    IN  IF content = <<>>
        THEN [path |-> NoPath, hash |-> h, wrote |-> FALSE, target |-> NoPath,
              files |-> files, index |-> idx]
        ELSE IF IndexHit(idx, h)
        THEN [path |-> idx[h], hash |-> h, wrote |-> FALSE, target |-> NoPath,
              files |-> files, index |-> idx]
        ELSE [path |-> path, hash |-> h, wrote |-> TRUE, target |-> path,
              files |-> [p \in DOMAIN files \cup {path} |->
                            IF p = path THEN content ELSE files[p]],
              index |-> [k \in DOMAIN idx \cup {h} |->
                            IF k = h THEN path ELSE idx[k]]]

\* Inputs of the cache calls.
CachePublishers == {<<"p">>}
CacheNames == {<<"a">>, <<"a", " ", "b">>}
CacheVersions == {<<"1">>, <<"1", "_", "1">>}
CacheContents == {<<>>, <<1>>, <<2>>, <<1, 2>>}

EmptyMap == [x \in {} |-> <<>>]
OnePath == <<"p", ".", "a", ".", "1">> \o IcoExt
GonePath == <<"g", "o", "n", "e">> \o IcoExt

\* Cache states a previous run can have left: empty; a file with its index
\* entry; a file whose index entry was lost; an index entry whose file is gone.
CacheInitStates ==
    { [files |-> EmptyMap, index |-> EmptyMap],
      [files |-> [p \in {OnePath} |-> <<1>>],
       index |-> [h \in {icon_hash(<<1>>)} |-> OnePath]],
      [files |-> [p \in {OnePath} |-> <<2>>], index |-> EmptyMap],
      [files |-> [p \in {OnePath, IconCandidate(SubSeq(OnePath, 1, 5), 1)} |-> IF p = OnePath THEN <<2>> ELSE <<7>>],
       index |-> EmptyMap],
      [files |-> EmptyMap,
       index |-> [h \in {icon_hash(<<2>>)} |-> GonePath]] }

CacheInit ==
    \E s \in CacheInitStates :
        /\ iconFiles = s.files
        /\ iconIndex = s.index
        /\ cacheLog = <<>>

CacheIdle == iconFiles = EmptyMap /\ iconIndex = EmptyMap /\ cacheLog = <<>>

\* One call of save_icon_to_cache_unique, recorded in cacheLog.
StoreIcon ==
    \E pub \in CachePublishers, nm \in CacheNames, ver \in CacheVersions,
       c \in CacheContents :
        LET r == save_icon_to_cache_unique(iconFiles, iconIndex, pub, nm, ver, c)
        IN  /\ Len(cacheLog) < MaxCalls
            /\ iconFiles' = r.files
            /\ iconIndex' = r.index
            /\ cacheLog' = Append(cacheLog,
                  [content |-> c, hash |-> r.hash,
                   base |-> IconStem(pub, nm, ver), path |-> r.path,
                   wrote |-> r.wrote, target |-> r.target,
                   before |-> DOMAIN iconFiles])
            /\ UNCHANGED cacheOthers

(***************************************************************************)
(* Version comparison: updater.version_tuple, the tuple comparison of      *)
(* update_app, and the update_available rule of flatrstore.py.             *)
(***************************************************************************)
DigitValue(c) == CHOOSE n \in 0..9 : IntStr(n) = <<c>>

\* int(x) of a run of decimal digits.
RECURSIVE IntOf(_)
IntOf(run) ==
    IF run = <<>> THEN 0
    ELSE 10 * IntOf(SubSeq(run, 1, Len(run) - 1)) + DigitValue(run[Len(run)])

\* The leading maximal run of digits of s.
RECURSIVE LeadingDigits(_)
LeadingDigits(s) ==
    IF s = <<>> \/ Head(s) \notin Digits THEN <<>>
    ELSE <<Head(s)>> \o LeadingDigits(Tail(s))

\* re.findall(r"\d+", s): the maximal digit runs, left to right.
RECURSIVE FindDigitRuns(_)
FindDigitRuns(s) ==
    IF s = <<>> THEN <<>>
    ELSE IF Head(s) \in Digits
         THEN LET run == LeadingDigits(s)
              IN  <<run>> \o FindDigitRuns(SubSeq(s, Len(run) + 1, Len(s)))
         ELSE FindDigitRuns(Tail(s))

\* updater.py line 46-48.
version_tuple(vstr) ==
    LET nums == FindDigitRuns(vstr)
    IN  IF nums = <<>> THEN <<0>> ELSE [i \in 1..Len(nums) |-> IntOf(nums[i])]

\* Python's `a > b` on tuples of ints: the first differing element decides;
\* when one tuple is a prefix of the other the longer one is the greater.
RECURSIVE TupleGreater(_, _)
TupleGreater(a, b) ==
    IF a = <<>> THEN FALSE
    ELSE IF b = <<>> THEN TRUE
    ELSE IF Head(a) # Head(b) THEN Head(a) > Head(b)
    ELSE TupleGreater(Tail(a), Tail(b))

\* flatrstore.py lines 636-638, 1121-1123 and 816: `iv and version and
\* (iv != version)`.
StoreUpdateAvailable(iv, version) == iv # <<>> /\ version # <<>> /\ iv # version

\* A mutant of DaemonUpdates: any readable remote version is taken.
DaemonUpdatesAlways(local_ver, remote_ver) == remote_ver # <<>>

\* updater.update_app lines 72-75: `if not remote_ver: return None`, then the
\* tuple comparison.
DaemonUpdates(local_ver, remote_ver) ==
    /\ remote_ver # <<>>
    /\ TupleGreater(version_tuple(remote_ver), version_tuple(local_ver))

VerAlphabet == {"0", "1", "2", "."}
VerExamples ==
    { <<"1", ".", "2", ".", "1">>, <<"1", ".", "2", ".", "0">>,
      <<"2", ".", "0">>, <<"1", ".", "9">>, <<"1", "0">>, <<"9">>, <<"v">> }
VersionStrings == SeqsUpTo(VerAlphabet, MaxVerLen) \cup VerExamples

VerInit ==
    /\ verLocal \in VersionStrings
    /\ verRemote \in VersionStrings
    /\ verPhase = "input"
    /\ verStore = FALSE
    /\ verDaemon = FALSE

VerIdle ==
    /\ verLocal = <<>> /\ verRemote = <<>> /\ verPhase = "idle"
    /\ verStore = FALSE /\ verDaemon = FALSE

\* The store resolves update_available for an entry whose installed version
\* is verLocal and whose catalog version is verRemote.
StoreDecide ==
    /\ verPhase = "input"
    /\ verPhase' = "store"
    /\ verStore' = StoreUpdateAvailable(verLocal, verRemote)
    /\ UNCHANGED <<verLocal, verRemote, verDaemon>>
    /\ UNCHANGED verOthers

\* The daemon decides whether to update the same install.
DaemonDecide ==
    /\ verPhase = "store"
    /\ verPhase' = "daemon"
    /\ verDaemon' = DaemonUpdates(verLocal, verRemote)
    /\ UNCHANGED <<verLocal, verRemote, verStore>>
    /\ UNCHANGED verOthers

(***************************************************************************)
(* Catalog list parsing: RepoFetchThread.run line 551 and                  *)
(* fetch_repo_list_quick line 73.                                          *)
(***************************************************************************)
\* The leading run of characters of s that are not in seps.
RECURSIVE LeadingToken(_, _)
LeadingToken(s, seps) ==
    IF s = <<>> \/ Head(s) \in seps THEN <<>>
    ELSE <<Head(s)>> \o LeadingToken(Tail(s), seps)

\* The leading run of characters of s that are in seps.
RECURSIVE LeadingSeps(_, _)
LeadingSeps(s, seps) ==
    IF s = <<>> \/ Head(s) \notin seps THEN <<>>
    ELSE <<Head(s)>> \o LeadingSeps(Tail(s), seps)

\* re.split(r'[,\n\r]+', s): the pieces between maximal runs of separators,
\* the empty pieces before a leading and after a trailing run included.
RECURSIVE ReSplitRuns(_, _)
ReSplitRuns(s, seps) ==
    LET tok  == LeadingToken(s, seps)
        rest == SubSeq(s, Len(tok) + 1, Len(s))
        run  == LeadingSeps(rest, seps)
    IN  IF rest = <<>> THEN <<tok>>
        ELSE <<tok>> \o ReSplitRuns(SubSeq(rest, Len(run) + 1, Len(rest)), seps)

\* str.split(sep): the pieces between single occurrences of sep.
RECURSIVE StrSplit(_, _)
StrSplit(s, sep) ==
    LET tok  == LeadingToken(s, {sep})
        rest == SubSeq(s, Len(tok) + 1, Len(s))
    IN  IF rest = <<>> THEN <<tok>>
        ELSE <<tok>> \o StrSplit(Tail(rest), sep)

\* [t.strip() for t in pieces if t.strip()]
RECURSIVE StripNonEmpty(_)
StripNonEmpty(pieces) ==
    IF pieces = <<>> THEN <<>>
    ELSE LET t == Strip(Head(pieces))
         IN  (IF t = <<>> THEN <<>> ELSE <<t>>) \o StripNonEmpty(Tail(pieces))

\* flatrstore.py line 551.
StoreParseList(text) == StripNonEmpty(ReSplitRuns(text, {",", "\n", "\r"}))

\* flatdroid-garden-opendoor.py line 73.
QuickParseList(text) == StripNonEmpty(StrSplit(text, ","))

BodyAlphabet == {"a", "b", ",", " ", "\n"}
BodyExample == <<"a", ",", "b", ",", ",", " ", " ", "c", " ">>
ListBodies == SeqsUpTo(BodyAlphabet, MaxBodyLen) \cup {BodyExample}

ListInit ==
    /\ listBody \in ListBodies
    /\ listPhase = "input"
    /\ slugsStore = <<>>
    /\ slugsQuick = <<>>

ListIdle ==
    listBody = <<>> /\ listPhase = "idle" /\ slugsStore = <<>> /\ slugsQuick = <<>>

StoreParse ==
    /\ listPhase = "input"
    /\ listPhase' = "store"
    /\ slugsStore' = StoreParseList(listBody)
    /\ UNCHANGED <<listBody, slugsQuick>>
    /\ UNCHANGED listOthers

QuickParse ==
    /\ listPhase = "store"
    /\ listPhase' = "quick"
    /\ slugsQuick' = QuickParseList(listBody)
    /\ UNCHANGED <<listBody, slugsStore>>
    /\ UNCHANGED listOthers

(***************************************************************************)
(* Descriptor documents and parse_details_xml.                             *)
(* A descriptor text is empty, malformed, or an element tree; an element   *)
(* is [tag, text, kids], text <<>> standing for no text.                   *)
(***************************************************************************)
Leaf(tag, text) == [tag |-> tag, text |-> text, kids |-> <<>>]
Elem(tag, text, kids) == [tag |-> tag, text |-> text, kids |-> kids]

TagApp == <<"a", "p", "p">>
TagPublisher == <<"p", "u", "b", "l", "i", "s", "h", "e", "r">>
TagName == <<"n", "a", "m", "e">>
TagVersion == <<"v", "e", "r", "s", "i", "o", "n">>

EmptyDoc == [kind |-> "empty", root |-> Leaf(<<>>, <<>>)]         \* ""
MalformedDoc == [kind |-> "malformed", root |-> Leaf(<<>>, <<>>)]  \* ET.ParseError
XmlDoc(root) == [kind |-> "xml", root |-> root]

\* str.lower() on the model's alphabet.
LowerChar(c) ==
    CASE c = "A" -> "a" [] c = "N" -> "n" [] c = "P" -> "p" [] c = "V" -> "v"
      [] OTHER -> c
Lower(s) == [i \in 1..Len(s) |-> LowerChar(s[i])]

\* str.endswith
EndsWith(s, suffix) ==
    /\ Len(suffix) <= Len(s)
    /\ SubSeq(s, Len(s) - Len(suffix) + 1, Len(s)) = suffix

\* Element.iter(): the element and its descendants in document order.
RECURSIVE IterElem(_)
RECURSIVE IterKids(_)
IterElem(el) == <<el>> \o IterKids(el.kids)
IterKids(kids) ==
    IF kids = <<>> THEN <<>> ELSE IterElem(Head(kids)) \o IterKids(Tail(kids))

\* Element.find(tag): the direct children with exactly that tag, in order.
ChildrenTagged(base, tag) == SelectSeq(base.kids, LAMBDA k : k.tag = tag)

\* find_any of parse_details_xml (lines 371-378) followed by `or ""`.
find_any(base, tag) ==
    LET direct == ChildrenTagged(base, tag)
        hits   == SelectSeq(IterElem(base),
                      LAMBDA it : EndsWith(Lower(it.tag), Lower(tag)) /\ it.text # <<>>)
    IN  IF direct # <<>> /\ direct[1].text # <<>> THEN Strip(direct[1].text)
        ELSE IF hits # <<>> THEN Strip(hits[1].text)
        ELSE <<>>

NoFields == [publisher |-> <<>>, name |-> <<>>, version |-> <<>>]

FieldsOf(base) ==
    [publisher |-> find_any(base, TagPublisher),
     name      |-> find_any(base, TagName),
     version   |-> find_any(base, TagVersion)]

\* parse_details_xml (lines 365-395).
parse_details_xml(doc) ==
    IF doc.kind # "xml" THEN NoFields
    ELSE LET root == doc.root
             apps == ChildrenTagged(root, TagApp)
         IN  IF Lower(root.tag) = TagApp THEN FieldsOf(root)
             ELSE IF apps # <<>> THEN FieldsOf(apps[1])
             ELSE FieldsOf(root)

\* `a or b` on strings.
OrElse(a, b) == IF a # <<>> THEN a ELSE b

(***************************************************************************)
(* The installation root and installed_version_for.                        *)
(* installRoot maps a directory name (text) to a directory: a function     *)
(* from entry names to entries [kind, data, kids], kids being the          *)
(* directory below a "dir" entry.                                          *)
(***************************************************************************)
NoData == [kind |-> "none", root |-> Leaf(<<>>, <<>>)]
Blob(tag) == [kind |-> tag, root |-> Leaf(<<>>, <<>>)]    \* opaque file bytes
TextData(text) == [kind |-> "text", root |-> Leaf(<<>>, text)]  \* a text file
EmptyDir == <<>>                     \* a directory without entries
FileEntry(data) == [kind |-> "file", data |-> data, kids |-> EmptyDir]
DirEntry(kids) == [kind |-> "dir", data |-> NoData, kids |-> kids]

\* Code-point order of the characters that safe_name lets through.
AsciiOrder ==
    <<"-", ".", "0", "1", "2", "3", "4", "5", "6", "7", "8", "9", "_",
      "a", "b", "c", "d", "e", "i", "k", "l", "m", "n", "o", "p", "r", "s",
      "t", "u", "v", "w", "x", "y">>
Ord(c) == CHOOSE i \in 1..Len(AsciiOrder) : AsciiOrder[i] = c

\* Python's `a < b` on str.
RECURSIVE StrLess(_, _)
StrLess(a, b) ==
    IF b = <<>> THEN FALSE
    ELSE IF a = <<>> THEN TRUE
    ELSE IF Head(a) # Head(b) THEN Ord(Head(a)) < Ord(Head(b))
    ELSE StrLess(Tail(a), Tail(b))

StartsWith(s, prefix) ==
    Len(prefix) <= Len(s) /\ SubSeq(s, 1, Len(prefix)) = prefix

\* INSTALL_BASE.glob(f"{pub}.{nm}.*")
GlobVersions(root, pub, nm) ==
    {d \in DOMAIN root : StartsWith(d, pub \o <<".">> \o nm \o <<".">>)}

\* sorted(versions, key=lambda p: p.name, reverse=True)[0]
GreatestName(names) == CHOOSE d \in names : \A e \in names : e = d \/ StrLess(e, d)

DetailsName == "details.xml"
ReadmeName == "README.md"

\* Lines 404-410: the details.xml of dest, or the first one rglob finds below.
DetailsData(dir) ==
    IF DetailsName \in DOMAIN dir /\ dir[DetailsName].kind = "file"
    THEN dir[DetailsName].data
    ELSE LET subs == {n \in DOMAIN dir :
                        /\ dir[n].kind = "dir"
                        /\ DetailsName \in DOMAIN dir[n].kids}
         IN  IF subs = {} THEN NoData
             ELSE dir[CHOOSE n \in subs : TRUE].kids[DetailsName].data

\* read_text + parse_details_xml of a file's data; bytes that are no descriptor
\* do not parse.
ParseData(data) ==
    IF data.kind \in {"empty", "malformed", "xml"} THEN parse_details_xml(data)
    ELSE NoFields

NoDest == <<>>

\* installed_version_for (lines 397-418): [version, dest], version <<>> for None.
installed_version_for(info, root) ==
    LET pub      == safe_name(OrElse(info.publisher, Unknown))
        nm       == safe_name(OrElse(info.app, OrElse(info.name, info.repo)))
        versions == GlobVersions(root, pub, nm)
    IN  IF versions = {} THEN [version |-> <<>>, dest |-> NoDest]
        ELSE LET dest == GreatestName(versions)
                 data == DetailsData(root[dest])
             IN  [version |-> IF data = NoData THEN <<>>
                              ELSE ParseData(data).version,
                  dest |-> dest]

\* Lines 633-638 and GridView.open_detail lines 1118-1123: the derived
\* install fields of an entry.
ResolveInstallState(info, root) ==
    LET r == installed_version_for(info, root)
    IN  [installed_version |-> r.version,
         installed_path    |-> r.dest,
         update_available  |-> StoreUpdateAvailable(r.version, info.version)]

\* The entry with its derived install fields set (lines 633-638).
WithInstallState(item, root) ==
    LET st == ResolveInstallState(item, root)
    IN  [repo |-> item.repo, app |-> item.app, name |-> item.name,
         publisher |-> item.publisher, version |-> item.version,
         icon_cache_path |-> item.icon_cache_path, readme |-> item.readme,
         details_xml |-> item.details_xml,
         installed_version |-> st.installed_version,
         installed_path |-> st.installed_path,
         update_available |-> st.update_available]

DefaultVersion == <<"0", ".", "0", ".", "0">>

\* repo.split("/")[-1]
LastSegment(repo) == LET parts == StrSplit(repo, "/") IN parts[Len(parts)]

\* The entry _fetch_repo_info builds (lines 580-631) from the descriptor
\* response text, the README text and the icon cache result.
CatalogItem(repo, details_xml, readme, icon_path) ==
    LET parsed   == parse_details_xml(details_xml)
        app_name == OrElse(parsed.name, LastSegment(repo))
    IN  [repo |-> repo,
         app |-> app_name,
         name |-> OrElse(parsed.name, app_name),
         publisher |-> OrElse(parsed.publisher, Unknown),
         version |-> OrElse(parsed.version, DefaultVersion),
         icon_cache_path |-> icon_path,
         readme |-> readme,
         details_xml |-> details_xml]

(***************************************************************************)
(* Catalog sync pass: RepoFetchThread.run and _fetch_repo_info.            *)
(***************************************************************************)
NoList == [kind |-> "none", status |-> 0, body |-> <<>>]

\* Response.raise_for_status(): raises for a 4xx or 5xx status.
RaisesForStatus(status) == 400 <= status /\ status < 600

\* Response.ok
ResponseOk(status) == status < 400

EntryKey(item) == <<OrElse(item.app, item.name), item.publisher>>

\* A mutant of DedupFrom: the repo slug is part of what makes an entry a
\* duplicate.
RECURSIVE DedupFromByRepo(_, _)
DedupFromByRepo(items, seen) ==
    IF items = <<>> THEN <<>>
    ELSE LET key == <<EntryKey(Head(items)), Head(items).repo>>
         IN  IF key \notin seen
             THEN <<Head(items)>> \o DedupFromByRepo(Tail(items), seen \cup {key})
             ELSE DedupFromByRepo(Tail(items), seen)

\* Lines 561-567: unique_results, given the keys seen so far.
RECURSIVE DedupFrom(_, _)
DedupFrom(items, seen) ==
    IF items = <<>> THEN <<>>
    ELSE LET key == EntryKey(Head(items))
         IN  IF key \notin seen /\ key # <<<<>>, <<>>>>
             THEN <<Head(items)>> \o DedupFrom(Tail(items), seen \cup {key})
             ELSE DedupFrom(Tail(items), seen)

NoCache == [present |-> FALSE, entries |-> <<>>]

\* Lines 561-571: dedup, cache_save, finished_fetch.emit.
FinishPass(results) ==
    LET unique_results == DedupFrom(results, {})
    IN  /\ catalogCache' = [present |-> TRUE, entries |-> unique_results]
        /\ syncSignal' = "finished"
        /\ syncEmitted' = unique_results
        /\ syncPc' = "done"

\* except Exception as e: self.error.emit(str(e))   (lines 572-573)
FailPass ==
    /\ syncSignal' = "error"
    /\ syncPc' = "done"
    /\ UNCHANGED <<syncEmitted, catalogCache>>

\* The catalog list responses of the model.
SlugA == <<"a">>
SlugB == <<"b">>
SyncBodies ==
    { <<>>,
      <<" ", ",", "\n">>,
      <<"a", ",", "b">>,
      <<"a", "\n", "b", ",", "a">>,
      <<"a", ",", "u", "/", "a", ",", "b">> }
ListResponses ==
    {[kind |-> "exception", status |-> 0, body |-> <<>>]}
    \cup {[kind |-> "http", status |-> st, body |-> <<>>] : st \in {304, 404, 500}}
    \cup {[kind |-> "http", status |-> 200, body |-> b] : b \in SyncBodies}

\* The descriptor responses of the model.
DocOf(publisher, name, version) ==
    XmlDoc(Elem(TagApp, <<"\n">>,
                (IF publisher = <<>> THEN <<>> ELSE <<Leaf(TagPublisher, publisher)>>)
                \o (IF name = <<>> THEN <<>> ELSE <<Leaf(TagName, name)>>)
                \o (IF version = <<>> THEN <<>> ELSE <<Leaf(TagVersion, version)>>)))
SyncDocs ==
    { DocOf(<<"p">>, <<"x">>, <<"1">>),
      DocOf(<<"p">>, <<"x">>, <<"2">>),
      DocOf(<<"p">>, <<>>, <<>>),
      MalformedDoc }
DescriptorResponses ==
    {[kind |-> "exception", doc |-> EmptyDoc], [kind |-> "error", doc |-> EmptyDoc]}
    \cup {[kind |-> "ok", doc |-> d] : d \in SyncDocs}
ReadmeResponses == {<<>>, <<"r">>}       \* "" when neither README URL answers
IconResponses == {<<>>, <<1>>}           \* None, or the icon bytes

\* Lines 547-553, up to the loop: the list request and its parse.  With no
\* slug the loop body never runs and the pass finishes at once.
FetchList ==
    /\ syncPc = "idle"
    /\ \E resp \in ListResponses :
        /\ syncList' = resp
        /\ IF resp.kind = "exception" \/ RaisesForStatus(resp.status)
           THEN /\ FailPass
                /\ UNCHANGED <<syncRepos, syncNext, syncResults>>
           ELSE LET repos == StoreParseList(resp.body)
                IN  /\ syncRepos' = repos
                    /\ syncNext' = 1
                    /\ syncResults' = <<>>
                    /\ IF repos = <<>>
                       THEN FinishPass(<<>>)
                       ELSE /\ syncPc' = "fetching"
                            /\ UNCHANGED <<syncSignal, syncEmitted, catalogCache>>
    /\ UNCHANGED <<iconFiles, iconIndex, syncFetched>>
    /\ UNCHANGED syncOthers

\* One turn of the loop of lines 555-559: _fetch_repo_info(repo) (lines
\* 575-642); after the last slug the pass finishes (lines 561-571).
FetchRepoInfo ==
    /\ syncPc = "fetching"
    /\ syncNext <= Len(syncRepos)
    /\ \E d \in DescriptorResponses, readme \in ReadmeResponses,
          icon \in IconResponses :
        LET repo    == syncRepos[syncNext]
            xml     == IF d.kind = "ok" THEN d.doc ELSE EmptyDoc
            draft   == CatalogItem(repo, xml, readme, NoPath)
            stored  == save_icon_to_cache_unique(iconFiles, iconIndex,
                          draft.publisher, draft.app, draft.version, icon)
            item    == CatalogItem(repo, xml, readme, stored.path)
            results == IF d.kind = "exception" THEN syncResults
                       ELSE Append(syncResults, WithInstallState(item, installRoot))
        IN  /\ syncResults' = results
            /\ syncFetched' = Append(syncFetched,
                   [descriptor |-> d.kind, readme |-> readme # <<>>,
                    icon |-> icon # <<>>])
            /\ syncNext' = syncNext + 1
            /\ IF d.kind = "exception"
               THEN UNCHANGED <<iconFiles, iconIndex>>
               ELSE iconFiles' = stored.files /\ iconIndex' = stored.index
            /\ IF syncNext = Len(syncRepos)
               THEN FinishPass(results)
               ELSE UNCHANGED <<syncPc, syncSignal, syncEmitted, catalogCache>>
    /\ UNCHANGED <<syncList, syncRepos>>
    /\ UNCHANGED syncOthers

EmptyRoot == <<>>                    \* INSTALL_BASE without directories

SyncInit ==
    /\ syncPc = "idle"
    /\ syncList = NoList
    /\ syncRepos = <<>>
    /\ syncNext = 1
    /\ syncResults = <<>>
    /\ syncSignal = "none"
    /\ syncEmitted = <<>>
    /\ syncFetched = <<>>
    /\ catalogCache \in
         { NoCache,
           [present |-> TRUE,
            entries |-> <<WithInstallState(
                              CatalogItem(SlugA, EmptyDoc, <<>>, NoPath),
                              EmptyRoot)>>] }

SyncIdle ==
    /\ syncPc = "off" /\ syncList = NoList /\ syncRepos = <<>> /\ syncNext = 1
    /\ syncResults = <<>> /\ syncSignal = "none" /\ syncEmitted = <<>>
    /\ syncFetched = <<>> /\ catalogCache = NoCache

RootIdle == installRoot = EmptyRoot

(***************************************************************************)
(* Detail dialog and install operation: AppDetailDialog, InstallThread.    *)
(* One install runs at a time: the dialog that started it stays open until *)
(* its finished_install signal is delivered.                               *)
(***************************************************************************)
\* AppDetailDialog.dest_folder (lines 1001-1005) and InstallThread.run lines
\* 660-663: the name of the destination directory under INSTALL_BASE.
dest_folder(info) ==
    safe_name(OrElse(info.publisher, Unknown)) \o <<".">>
        \o safe_name(OrElse(info.app, info.repo)) \o <<".">>
        \o safe_name(OrElse(info.version, DefaultVersion))

\* A mutant of SingleWrapper: the archive is never unwrapped.
SingleWrapperNever(entries) == FALSE

\* Line 710: `len(entries) == 1 and entries[0].is_dir()`.
SingleWrapper(entries) ==
    /\ Cardinality(DOMAIN entries) = 1
    /\ \A n \in DOMAIN entries : entries[n].kind = "dir"

\* Lines 709-728: what the moves put into the freshly made destination.
MovedEntries(entries) ==
    IF SingleWrapper(entries)
    THEN entries[CHOOSE n \in DOMAIN entries : TRUE].kids
    ELSE entries

\* write_text on dir/name inside `try ... except: pass`: a directory of that
\* name makes the write fail and is left as it is.
WriteFile(dir, name, data) ==
    IF name \in DOMAIN dir /\ dir[name].kind = "dir" THEN dir
    ELSE [n \in DOMAIN dir \cup {name} |->
            IF n = name THEN FileEntry(data) ELSE dir[n]]

\* Lines 730-743: details.xml and README.md written into dest.
WithMetadata(dir, info) ==
    LET d1 == IF info.details_xml.kind # "empty"
              THEN WriteFile(dir, DetailsName, info.details_xml) ELSE dir
    IN  IF info.readme # <<>>
        THEN WriteFile(d1, ReadmeName, TextData(info.readme)) ELSE d1

\* The archives a download can deliver: a wrapper directory (the layout of a
\* source archive), a wrapper holding an entry of its own name, two top-level
\* entries, a lone file, no entry, and bytes that are no zip file.
ArchiveOf(entries) == [zip |-> TRUE, entries |-> entries]
BadZip == [zip |-> FALSE, entries |-> EmptyDir]
PyFile == FileEntry(Blob("py"))
Archives ==
    { ArchiveOf([n \in {"repo-main"} |->
          DirEntry([k \in {"main.py", DetailsName} |->
              IF k = DetailsName
              THEN FileEntry(DocOf(<<"p">>, <<"x">>, <<"8">>)) ELSE PyFile])]),
      ArchiveOf([n \in {"w"} |-> DirEntry([k \in {"w"} |-> PyFile])]),
      ArchiveOf([n \in {"main.py", "lib"} |->
          IF n = "lib"
          THEN DirEntry([k \in {DetailsName} |->
                  FileEntry(DocOf(<<"p">>, <<"x">>, <<"7">>))])
          ELSE PyFile]),
      ArchiveOf([n \in {"main.py"} |-> PyFile]),
      ArchiveOf(EmptyDir),
      BadZip }

\* The entries the grid can show: repo a at catalog version 9 and, after an
\* upstream release, at 10; repo b without a descriptor.
InstallCatalog ==
    { CatalogItem(SlugA, DocOf(<<"p">>, <<"x">>, <<"9">>), <<"r">>, NoPath),
      CatalogItem(SlugA, DocOf(<<"p">>, <<"x">>, <<"1", "0">>), <<"r">>, NoPath),
      CatalogItem(SlugB, EmptyDoc, <<>>, NoPath) }

NoTmpDir == [present |-> FALSE, entries |-> EmptyDir]
NoInfo == CatalogItem(<<>>, EmptyDoc, <<>>, NoPath)

\* update_install_state (lines 1007-1011).
update_install_state(info, root) ==
    /\ dlgInstallEnabled' = (dest_folder(info) \notin DOMAIN root)
    /\ dlgUninstallEnabled' = (dest_folder(info) \in DOMAIN root)

\* GridView.open_detail (lines 1117-1125) and AppDetailDialog.__init__.
OpenDetail ==
    /\ ~dlgOpen
    /\ instPc = "idle"
    /\ \E e \in InstallCatalog :
        /\ dlgInfo' = e
        /\ update_install_state(e, installRoot)
    /\ dlgOpen' = TRUE
    /\ UNCHANGED <<installRoot, instVars>>
    /\ UNCHANGED instOthers

\* The dialog is closed.
CloseDetail ==
    /\ dlgOpen
    /\ instPc = "idle"
    /\ dlgOpen' = FALSE
    /\ UNCHANGED <<dlgInfo, dlgInstallEnabled, dlgUninstallEnabled>>
    /\ UNCHANGED <<installRoot, instVars>>
    /\ UNCHANGED instOthers

\* AppDetailDialog.on_install (lines 1013-1027), the question answered Yes.
OnInstall ==
    /\ dlgOpen
    /\ dlgInstallEnabled
    /\ instPc = "idle"
    /\ dlgInstallEnabled' = FALSE
    /\ instPc' = "pending"
    /\ instInfo' = dlgInfo
    /\ instCancelled' = FALSE
    /\ instMidCancel' = FALSE
    /\ instOutcome' = "none"
    /\ tmpFile' = FALSE
    /\ instFd' = FALSE
    /\ instRootBefore' = installRoot
    /\ UNCHANGED <<instChunksLeft, instArchive, tmpExtractDir, instSignals>>
    /\ UNCHANGED <<instReruns, onWindows>>
    /\ UNCHANGED <<dlgOpen, dlgInfo, dlgUninstallEnabled, installRoot>>
    /\ UNCHANGED instOthers

\* Path.unlink on the temporary file.  The descriptor mkstemp returned (line
\* 675) is never closed, and Windows refuses to delete a file that has an
\* open handle: unlink raises there, and the `except Exception: pass` around
\* it leaves the file.
UnlinkSucceeds == ~(onWindows /\ instFd)

\* The thread ends: finished_install(ok, msg, info) is emitted and the
\* `finally` block (lines 771-781) unlinks the temporary file and removes the
\* extraction directory.
EndInstall(outcome, msg) ==
    /\ instOutcome' = outcome
    /\ instSignals' = Append(instSignals,
           [ok |-> outcome = "completed", outcome |-> outcome, msg |-> msg])
    /\ tmpFile' = (tmpFile /\ ~UnlinkSucceeds)
    /\ tmpExtractDir' = NoTmpDir
    /\ instPc' = "done"

\* InstallThread.cancel (lines 654-655).
Cancel ==
    /\ instPc \in {"pending", "downloading", "finalizing"}
    /\ ~instCancelled
    /\ instCancelled' = TRUE
    /\ instMidCancel' = (instPc = "downloading" /\ instChunksLeft > 0)
    /\ UNCHANGED <<instPc, instInfo, instChunksLeft, instArchive, tmpFile,
                   tmpExtractDir, instOutcome, instSignals, instFd>>
    /\ UNCHANGED instFixed
    /\ UNCHANGED <<installRoot, dlgVars>>
    /\ UNCHANGED instOthers

\* Lines 659-678: the archive request; a failed request or a status other
\* than 200 ends the operation, otherwise the temporary file is created.
StartDownload ==
    /\ instPc = "pending"
    /\ \E resp \in {"exception", "http404", "http200"} :
        IF resp # "http200"
        THEN /\ EndInstall("failed", IF resp = "exception" THEN "Error: e"
                                                          ELSE "HTTP 404 al descargar ZIP")
             /\ UNCHANGED <<instChunksLeft, instArchive, instFd>>
        ELSE /\ \E a \in Archives, n \in 1..MaxChunks :
                  instArchive' = a /\ instChunksLeft' = n
             /\ tmpFile' = TRUE
             /\ instFd' = TRUE
             /\ instPc' = "downloading"
             /\ UNCHANGED <<tmpExtractDir, instOutcome, instSignals>>
    /\ UNCHANGED <<instInfo, instCancelled, instMidCancel>>
    /\ UNCHANGED instFixed
    /\ UNCHANGED <<installRoot, dlgVars>>
    /\ UNCHANGED instOthers

\* A mutant of CancelSeen: the loop never looks at the flag.
CancelSeenNever(cancelled) == FALSE

\* `if self._cancelled:` of line 682, read once per delivered chunk.
CancelSeen(cancelled) == cancelled

\* One turn of the loop of lines 681-697: iter_content raises (the connection
\* breaks), or it delivers a chunk and the cancellation check and the write
\* follow.
ChunkStep(cancelled) ==
    /\ instPc = "downloading"
    /\ instChunksLeft > 0
    /\ \/ /\ EndInstall("failed", "Error: e")
          /\ UNCHANGED instChunksLeft
       \/ IF CancelSeen(cancelled)
          THEN /\ EndInstall("cancelled", "Cancelado")
               /\ UNCHANGED instChunksLeft
          ELSE /\ instChunksLeft' = instChunksLeft - 1
               /\ UNCHANGED <<instPc, tmpFile, tmpExtractDir, instOutcome, instSignals>>
    /\ UNCHANGED <<instInfo, instCancelled, instArchive, instMidCancel, instFd>>
    /\ UNCHANGED instFixed
    /\ UNCHANGED <<installRoot, dlgVars>>
    /\ UNCHANGED instOthers

DownloadChunk == ChunkStep(instCancelled)

\* Lines 699-703, the stream being exhausted: mkdtemp and extractall; bytes
\* that are no zip file raise and end the operation.
Extract ==
    /\ instPc = "downloading"
    /\ instChunksLeft = 0
    /\ IF instArchive.zip
       THEN /\ tmpExtractDir' = [present |-> TRUE, entries |-> instArchive.entries]
            /\ instPc' = "finalizing"
            /\ UNCHANGED <<tmpFile, instOutcome, instSignals>>
       ELSE EndInstall("failed", "Error: e")
    /\ UNCHANGED <<instInfo, instCancelled, instChunksLeft, instArchive, instMidCancel,
                   instFd>>
    /\ UNCHANGED instFixed
    /\ UNCHANGED <<installRoot, dlgVars>>
    /\ UNCHANGED instOthers

\* A mutant of FreshDest: an existing destination keeps its content.
FreshDestKeeping(root, dest) == IF dest \in DOMAIN root THEN root[dest] ELSE EmptyDir

\* Lines 705-707: `if dest.exists(): shutil.rmtree(dest)`, then dest.mkdir:
\* what the destination holds before the first move.
FreshDest(root, dest) == EmptyDir

\* Lines 711-728: each child in `moved` replaces the target of its name.
MoveInto(base, src, moved) ==
    [n \in DOMAIN base \cup moved |-> IF n \in moved THEN src[n] ELSE base[n]]

\* Lines 705-770: the destination is removed and made anew, the extracted
\* entries are moved in, the metadata is written, success is reported.  A
\* shutil.move that raises ends the operation through the outer `except`
\* (lines 782-783) with the entries moved so far left in the destination.
Finalize ==
    /\ instPc = "finalizing"
    /\ LET dest == dest_folder(instInfo)
           src  == MovedEntries(tmpExtractDir.entries)
       IN  \E moved \in SUBSET DOMAIN src :
             LET placed == MoveInto(FreshDest(installRoot, dest), src, moved)
                 dir    == IF moved = DOMAIN src
                           THEN WithMetadata(placed, instInfo) ELSE placed
             IN  /\ installRoot' = [d \in DOMAIN installRoot \cup {dest} |->
                                      IF d = dest THEN dir ELSE installRoot[d]]
                 /\ IF moved = DOMAIN src
                    THEN EndInstall("completed", "Instalado en: dest")
                    ELSE EndInstall("failed", "Error: e")
    /\ UNCHANGED <<instInfo, instCancelled, instChunksLeft, instArchive, instMidCancel,
                   instFd>>
    /\ UNCHANGED instFixed
    /\ UNCHANGED dlgVars
    /\ UNCHANGED instOthers

\* lines 1024-1027 run once more for the entry of a thread that has ended: a
\* detail dialog opened while that thread was still running (or another
\* store window) has its install button enabled, whatever the root holds by
\* the time it is pressed.
RunAgain ==
    /\ instPc = "done"
    /\ instReruns < MaxReruns
    /\ instReruns' = instReruns + 1
    /\ instPc' = "pending"
    /\ instCancelled' = FALSE
    /\ instMidCancel' = FALSE
    /\ instOutcome' = "none"
    /\ tmpFile' = FALSE
    /\ instFd' = FALSE
    /\ instSignals' = <<>>
    /\ instRootBefore' = installRoot
    /\ UNCHANGED <<instInfo, instChunksLeft, instArchive, tmpExtractDir, onWindows>>
    /\ UNCHANGED <<installRoot, dlgVars>>
    /\ UNCHANGED instOthers

\* AppDetailDialog.on_finished (lines 1029-1032), run when the queued
\* finished_install signal reaches the dialog.
OnFinished ==
    /\ instPc = "done"
    /\ instSignals # <<>>
    /\ instSignals' = Tail(instSignals)
    /\ instPc' = "idle"
    /\ dlgInfo' = instInfo
    /\ update_install_state(instInfo, installRoot)
    /\ instRootBefore' = EmptyRoot
    /\ instMidCancel' = FALSE
    /\ UNCHANGED <<instInfo, instCancelled, instChunksLeft, instArchive, tmpFile,
                   tmpExtractDir, instOutcome, instFd>>
    /\ UNCHANGED <<instReruns, onWindows>>
    /\ UNCHANGED <<installRoot, dlgOpen>>
    /\ UNCHANGED instOthers

\* AppDetailDialog.on_uninstall (lines 1034-1055), the question answered Yes.
OnUninstall ==
    /\ dlgOpen
    /\ dlgUninstallEnabled
    /\ LET dest == dest_folder(dlgInfo)
           root == [d \in DOMAIN installRoot \ {dest} |-> installRoot[d]]
       IN  /\ installRoot' = root
           /\ update_install_state(dlgInfo, root)
    /\ UNCHANGED <<dlgOpen, dlgInfo, instVars>>
    /\ UNCHANGED instOthers

DlgInit ==
    /\ dlgOpen = FALSE
    /\ dlgInfo = NoInfo
    /\ dlgInstallEnabled = FALSE
    /\ dlgUninstallEnabled = FALSE

InstInit ==
    /\ instPc = "idle"
    /\ instInfo = NoInfo
    /\ instCancelled = FALSE
    /\ instChunksLeft = 0
    /\ instArchive = BadZip
    /\ tmpFile = FALSE
    /\ tmpExtractDir = NoTmpDir
    /\ instOutcome = "none"
    /\ instSignals = <<>>
    /\ instMidCancel = FALSE
    /\ instFd = FALSE
    /\ instRootBefore = EmptyRoot
    /\ instReruns = 0

(***************************************************************************)
(* Update daemon: updater.py.  An app folder is a map from file name to    *)
(* content; the files of sub-folders are handled like those of the folder  *)
(* itself and are left out.                                                *)
(***************************************************************************)
DetailsFile == <<"d", "e", "t", "a", "i", "l", "s", ".", "x", "m", "l">>
BakSuffix == <<".", "b", "a", "k">>

\* path.with_suffix(path.suffix + ".bak")
BakName(f) == f \o BakSuffix

\* The content of the backup file of f, NoData when there is none.
BakOf(files, f) == IF BakName(f) \in DOMAIN files THEN files[BakName(f)] ELSE NoData

\* A mutant of safe_backup: no copy is made.
SafeBackupNever(files, f) == files

\* safe_backup (lines 62-64): copy2(path, path + ".bak") when path exists.
safe_backup(files, f) ==
    IF f \in DOMAIN files
    THEN [n \in DOMAIN files \cup {BakName(f)} |->
            IF n = BakName(f) THEN files[f] ELSE files[n]]
    ELSE files

\* Path.write_text
WriteText(files, f, data) ==
    [n \in DOMAIN files \cup {f} |-> IF n = f THEN data ELSE files[n]]

\* parse_details (lines 37-44): root.find("app").text.strip() and
\* root.find("version").text.strip(); a missing child or a child without text
\* raises inside the try, and the result is (None, None).
parse_details(data) ==
    LET apps == IF data.kind = "xml" THEN ChildrenTagged(data.root, TagApp) ELSE <<>>
        vers == IF data.kind = "xml" THEN ChildrenTagged(data.root, TagVersion) ELSE <<>>
    IN  IF apps = <<>> \/ vers = <<>> THEN [app_id |-> <<>>, version |-> <<>>]
        ELSE IF apps[1].text = <<>> \/ vers[1].text = <<>>
             THEN [app_id |-> <<>>, version |-> <<>>]
        ELSE [app_id |-> Strip(apps[1].text), version |-> Strip(vers[1].text)]

\* The except branch of parse_details (lines 43-44) is taken: the result is
\* (None, None), which parse_details above writes as two empty texts.
parse_details_none(data) ==
    \/ data.kind # "xml"
    \/ ChildrenTagged(data.root, TagApp) = <<>>
    \/ ChildrenTagged(data.root, TagVersion) = <<>>
    \/ ChildrenTagged(data.root, TagApp)[1].text = <<>>
    \/ ChildrenTagged(data.root, TagVersion)[1].text = <<>>

\* remote_details (lines 50-60): (r.text, ver) for a 200 response whose
\* document has a version child with text, (None, None) otherwise.
remote_details(resp) ==
    LET vers == IF resp.status = 200 /\ resp.doc.kind = "xml"
                THEN ChildrenTagged(resp.doc.root, TagVersion) ELSE <<>>
    IN  IF vers = <<>> THEN [xml |-> NoData, version |-> <<>>]
        ELSE IF vers[1].text = <<>> THEN [xml |-> NoData, version |-> <<>>]
        ELSE [xml |-> resp.doc, version |-> Strip(vers[1].text)]

\* A mutant of FetchWrites: any answer is written.
FetchWritesAny(status) == TRUE

\* Line 88: `if r.status_code == 200`; status 0 stands for a request that
\* raised.
FetchWrites(status) == status = 200

\* Lines 80-83: the files of os.walk(app_folder) that are not skipped.
WalkFiles(files) ==
    {f \in DOMAIN files : ~EndsWith(f, BakSuffix) /\ f # DetailsFile}

RemoteText == TextData(<<"n">>)      \* r.text of a file response

\* Lines 80-93: the loop over the walked files; fr gives the status each
\* request answers with.  writes collects, per overwrite, the content the
\* file had and the content of its backup file at that moment.
RECURSIVE SyncFiles(_, _, _, _)
SyncFiles(files, todo, fr, writes) ==
    IF todo = {} THEN [files |-> files, writes |-> writes]
    ELSE LET f == CHOOSE x \in todo : TRUE
         IN  IF FetchWrites(fr[f])
             THEN LET f1 == safe_backup(files, f)
                  IN  SyncFiles(WriteText(f1, f, RemoteText), todo \ {f}, fr,
                          Append(writes, [file |-> f, before |-> f1[f],
                                          bak |-> BakOf(f1, f)]))
             ELSE SyncFiles(files, todo \ {f}, fr, writes)

NoEvent == [app_id |-> <<>>, old |-> <<>>, new |-> <<>>]

\* update_app (lines 66-102) on the files of one folder: rd is the answer to
\* the descriptor request, fr the answers to the file requests.
update_app(files, rd, fr) ==
    LET local  == parse_details(IF DetailsFile \in DOMAIN files
                                THEN files[DetailsFile] ELSE NoData)
        remote == remote_details(rd)
    IN  IF local.app_id = <<>> \/ ~DaemonUpdates(local.version, remote.version)
        THEN [files |-> files, writes |-> <<>>, fetched |-> {}, updated |-> FALSE,
              event |-> NoEvent]
        ELSE LET f1     == safe_backup(files, DetailsFile)
                 f2     == WriteText(f1, DetailsFile, remote.xml)
                 walk   == WalkFiles(f2)
                 synced == SyncFiles(f2, walk, fr,
                              <<[file |-> DetailsFile, before |-> f1[DetailsFile],
                                 bak |-> BakOf(f1, DetailsFile)]>>)
             IN  [files |-> synced.files, writes |-> synced.writes,
                  fetched |-> walk, updated |-> TRUE,
                  event |-> [app_id |-> local.app_id, old |-> local.version,
                             new |-> remote.version]]

\* The folders of the model: one with a stale backup file, and one whose
\* descriptor is either the daemon's kind or one the store wrote (an `app`
\* root without an `app` child).
UpdDoc(app, version) ==
    XmlDoc(Elem(<<"r">>, <<>>, <<Leaf(TagApp, app), Leaf(TagVersion, version)>>))
FileM == <<"m">>
FileG == <<"g">>
FolderOne ==
    [n \in {DetailsFile, FileM, BakName(FileM)} |->
        IF n = DetailsFile THEN UpdDoc(<<"x">>, <<"1">>)
        ELSE IF n = FileM THEN TextData(<<"o">>) ELSE TextData(<<"k">>)]
FolderTwo(doc) == [n \in {DetailsFile, FileG} |-> IF n = DetailsFile THEN doc ELSE PyFile.data]
DaemonFolderSets ==
    { <<FolderOne, FolderTwo(UpdDoc(<<"y">>, <<"1", ".", "2">>))>>,
      <<FolderOne, FolderTwo(DocOf(<<"p">>, <<"x">>, <<"1">>))>> }

\* What the repository answers: the descriptor request, and one status per
\* file name.
DaemonDescriptors ==
    {[status |-> 0, doc |-> EmptyDoc], [status |-> 404, doc |-> EmptyDoc],
     [status |-> 200, doc |-> MalformedDoc]}
    \cup {[status |-> 200, doc |-> UpdDoc(<<"x">>, v)] :
            v \in {<<>>, <<"1">>, <<"2">>, <<"1", ".", "2", ".", "0">>}}
    \cup {[status |-> 200,
           doc |-> XmlDoc(Elem(<<"r">>, <<>>, <<Leaf(TagApp, <<"x">>)>>))]}
FileNames == {DetailsFile, BakName(DetailsFile), FileM, BakName(FileM), FileG,
              BakName(FileG)}
UpstreamAnswers ==
    {fr \in [FileNames -> {0, 404, 200}] :
        /\ fr[DetailsFile] = 200
        /\ \A f \in FileNames : EndsWith(f, BakSuffix) => fr[f] = 404}

NoEvents == [updated |-> <<>>, no_updates |-> FALSE]
NoCall == [folder |-> 0, before |-> <<>>, after |-> <<>>, fr |-> <<>>, fetched |-> {},
           writes |-> <<>>, updated |-> FALSE,
           rd |-> [status |-> 0, doc |-> EmptyDoc], applied |-> {}, appliedBefore |-> {}]

\* A mutant of PassPcAfter: a folder whose remote descriptor could not be
\* read ends the pass.
PassPcAborting(k, n, failed) == IF failed \/ k = n THEN "sleeping" ELSE "walking"

\* The `for` loops of daemon_loop (lines 122-127) after update_app returned
\* for folder k of n: update_app returns None for a remote descriptor that
\* could not be read, and the walk goes on.
PassPcAfter(k, n, failed) == IF k = n THEN "sleeping" ELSE "walking"

\* daemon_loop (lines 120-128): one turn of `while True` begins.
DaemonPass ==
    /\ daemonPc = "sleeping"
    /\ daemonTicks < MaxTicks
    /\ daemonTicks' = daemonTicks + 1
    /\ daemonPc' = "walking"
    /\ daemonNext' = 1
    /\ daemonEvents' = NoEvents
    /\ daemonChanged' = {}
    /\ daemonChecked' = <<>>
    /\ UNCHANGED <<appFolders, daemonLast, vcRepoList, vcEvents>>
    /\ UNCHANGED daemonOthers

\* daemon_loop line 127: update_app on the next folder that holds a
\* details.xml; notification.notify (lines 96-100) is the only event of the
\* loop; after the last folder the loop sleeps.
UpdateApp ==
    /\ daemonPc = "walking"
    /\ \E rd \in DaemonDescriptors, fr \in UpstreamAnswers :
        LET k   == daemonNext
            res == update_app(appFolders[k], rd, fr)
        IN  /\ appFolders' = [appFolders EXCEPT ![k] = res.files]
            /\ daemonEvents' =
                  [daemonEvents EXCEPT
                      !.updated = IF res.updated THEN Append(@, res.event) ELSE @]
            /\ daemonChanged' = IF res.files # appFolders[k]
                                THEN daemonChanged \cup {k} ELSE daemonChanged
            /\ daemonLast' = [folder |-> k, before |-> appFolders[k],
                              after |-> res.files,
                              fr |-> [f \in res.fetched |-> fr[f]],
                              fetched |-> res.fetched, writes |-> res.writes,
                              updated |-> res.updated,
                              rd |-> rd,
                              applied |->
                                  IF res.updated
                                  THEN {q \in daemonLast.applied : q[1] # k}
                                          \cup {<<k, rd>>}
                                  ELSE daemonLast.applied,
                              appliedBefore |->
                                  {q[2] : q \in {x \in daemonLast.applied : x[1] = k}}]
            /\ daemonChecked' = Append(daemonChecked,
                   [folder |-> k, failed |-> remote_details(rd).version = <<>>,
                    newer |-> /\ parse_details(appFolders[k][DetailsFile]).app_id # <<>>
                              /\ DaemonUpdates(
                                    parse_details(appFolders[k][DetailsFile]).version,
                                    remote_details(rd).version),
                    updated |-> res.updated])
            /\ daemonNext' = k + 1
            /\ daemonPc' = PassPcAfter(k, Len(appFolders),
                                       remote_details(rd).version = <<>>)
    /\ UNCHANGED <<daemonTicks, vcRepoList, vcEvents>>
    /\ UNCHANGED daemonOthers

(***************************************************************************)
(* Periodic version check of the store: VersionCheckThread.run and         *)
(* MainWindow.on_update_available.                                         *)
(***************************************************************************)
\* Lines 800-822: the new_info of every installed entry whose remote
\* descriptor answers with a version other than the installed one.
RECURSIVE VersionUpdates(_, _)
VersionUpdates(list, resps) ==
    IF list = <<>> THEN <<>>
    ELSE LET info   == Head(list)
             remote == IF Head(resps).kind = "ok"
                       THEN parse_details_xml(Head(resps).doc).version ELSE <<>>
             found  == /\ info.installed_version # <<>>
                       /\ remote # <<>>
                       /\ remote # info.installed_version
         IN  (IF found
              THEN <<[info EXCEPT !.version = remote, !.update_available = TRUE]>>
              ELSE <<>>) \o VersionUpdates(Tail(list), Tail(resps))

\* MainWindow.on_update_available (lines 1387-1392), once per signal: the
\* first item of that repo is replaced.
RECURSIVE on_update_available(_, _)
on_update_available(list, infos) ==
    IF infos = <<>> THEN list
    ELSE LET hits == {i \in 1..Len(list) : list[i].repo = Head(infos).repo}
             i0   == CHOOSE i \in hits : \A j \in hits : i <= j
         IN  on_update_available(
                 IF hits = {} THEN list ELSE [list EXCEPT ![i0] = Head(infos)],
                 Tail(infos))

VcEntry(repo, installed, version) ==
    [repo |-> repo, installed_version |-> installed, version |-> version,
     update_available |-> FALSE]
NoCheck == [checked |-> FALSE, before |-> <<>>, resps |-> <<>>, updates |-> <<>>,
            no_updates |-> FALSE, resolved |-> <<>>, pc |-> "idle"]

\* VersionCheckThread.run (lines 797-828) with the handlers of its signals.
VersionCheck ==
    /\ vcRepoList # <<>>
    /\ \E resps \in [1..Len(vcRepoList) -> DescriptorResponses] :
        LET ups == VersionUpdates(vcRepoList, resps)
        IN  /\ vcEvents' = [checked |-> TRUE, before |-> vcRepoList, resps |-> resps,
                            updates |-> ups, no_updates |-> ups = <<>>,
                            resolved |->
                                [i \in 1..Len(vcRepoList) |->
                                    installed_version_for(vcRepoList[i],
                                                          installRoot).version],
                            pc |-> instPc]
            /\ vcRepoList' = on_update_available(vcRepoList, ups)
    /\ UNCHANGED <<appFolders, daemonPc, daemonNext, daemonTicks, daemonEvents,
                   daemonChanged, daemonChecked, daemonLast>>
    /\ UNCHANGED daemonOthers

DaemonInit ==
    /\ appFolders \in DaemonFolderSets
    /\ daemonPc = "sleeping"
    /\ daemonNext = 1
    /\ daemonTicks = 0
    /\ daemonEvents = NoEvents
    /\ daemonChanged = {}
    /\ daemonChecked = <<>>
    /\ daemonLast = NoCall
    /\ vcRepoList = <<>>
    /\ vcEvents = NoCheck

\* The store with its repo_list loaded; the daemon is another program.
CheckInit ==
    /\ appFolders = <<>> /\ daemonPc = "off" /\ daemonNext = 1 /\ daemonTicks = 0
    /\ daemonEvents = NoEvents /\ daemonChanged = {} /\ daemonLast = NoCall
    /\ daemonChecked = <<>>
    /\ vcRepoList = <<VcEntry(SlugA, <<"1">>, <<"1">>), VcEntry(SlugB, <<>>, <<"1">>)>>
    /\ vcEvents = NoCheck

DaemonIdle ==
    /\ appFolders = <<>> /\ daemonPc = "off" /\ daemonNext = 1 /\ daemonTicks = 0
    /\ daemonEvents = NoEvents /\ daemonChanged = {} /\ daemonLast = NoCall
    /\ daemonChecked = <<>> /\ vcRepoList = <<>> /\ vcEvents = NoCheck

(***************************************************************************)
(* Main window of the store: start-up and the handlers of the fetch        *)
(* thread's signals.  vcRepoList is MainWindow.repo_list.                  *)
(***************************************************************************)
\* _populate_grid (lines 1438-1475) without a search filter: nothing happens
\* while the offline panel is the current widget.
populate_grid(widget, grid, repo_list) == IF widget = "offline" THEN grid ELSE repo_list

\* MainWindow.__init__ lines 1177-1182 and load_cache_then_fetch (lines
\* 1352-1365); c1 and c2 are what the two is_connected() calls answer.
Startup ==
    /\ ~uiStarted
    /\ uiStarted' = TRUE
    /\ \E c1, c2 \in BOOLEAN :
        IF ~c1
        THEN /\ uiWidget' = "offline"
             /\ UNCHANGED <<uiGrid, vcRepoList, syncPc>>
        ELSE LET cached    == IF catalogCache.present THEN catalogCache.entries ELSE <<>>
                 repo_list == IF cached # <<>> THEN cached ELSE vcRepoList
             IN  /\ vcRepoList' = repo_list
                 /\ uiGrid' = IF cached # <<>>
                              THEN populate_grid(uiWidget, uiGrid, repo_list) ELSE uiGrid
                 /\ uiWidget' = IF c2 THEN uiWidget ELSE "offline"
                 /\ syncPc' = IF c2 THEN "idle" ELSE syncPc
    /\ UNCHANGED <<syncList, syncRepos, syncNext, syncResults, syncSignal, syncEmitted,
                   syncFetched, catalogCache, uiHandled>>
    /\ UNCHANGED <<appFolders, daemonPc, daemonNext, daemonTicks, daemonEvents,
                   daemonChanged, daemonChecked, daemonLast, vcEvents>>
    /\ UNCHANGED uiOthers

\* on_repos_loaded (lines 1371-1374) and on_fetch_error (lines 1367-1369),
\* run when the queued signal of the fetch thread is delivered.
OnFetchSignal ==
    /\ uiStarted
    /\ syncPc = "done"
    /\ ~uiHandled
    /\ uiHandled' = TRUE
    /\ IF syncSignal = "finished"
       THEN /\ vcRepoList' = syncEmitted
            /\ uiGrid' = populate_grid(uiWidget, uiGrid, syncEmitted)
            /\ uiWidget' = "grid"
       ELSE UNCHANGED <<vcRepoList, uiGrid, uiWidget>>
    /\ UNCHANGED uiStarted
    /\ UNCHANGED syncVars
    /\ UNCHANGED <<appFolders, daemonPc, daemonNext, daemonTicks, daemonEvents,
                   daemonChanged, daemonChecked, daemonLast, vcEvents>>
    /\ UNCHANGED uiOthers

UiInit == uiStarted = FALSE /\ uiWidget = "grid" /\ uiGrid = <<>> /\ uiHandled = FALSE

(***************************************************************************)
(* The two descriptor parsers as pure functions of one document:           *)
(* parse_details_xml of the store and parse_details of the daemon.         *)
(***************************************************************************)
TagOther == <<"d", "a", "t", "a">>
TagMinVersion == <<"m", "i", "n">> \o TagVersion
ParseTexts == { <<>>, <<" ">>, <<"1">>, <<" ", "2", " ">> }
ParseLeaves ==
    { Leaf(TagVersion, t) : t \in ParseTexts }
      \cup { Leaf(TagMinVersion, <<"9">>), Leaf(TagPublisher, <<"p">>),
             Leaf(TagApp, <<"x">>) }
ParseKids == { <<>> } \cup { <<a>> : a \in ParseLeaves }
                \cup { <<a, b>> : a \in ParseLeaves, b \in ParseLeaves }
ParseDocs ==
    { EmptyDoc, MalformedDoc }
      \cup { XmlDoc(Elem(rt, <<>>, kids)) : rt \in {TagApp, TagOther}, kids \in ParseKids }
      \cup { XmlDoc(Elem(TagOther, <<>>, <<Elem(TagApp, <<>>, kids)>>)) : kids \in ParseKids }

NotParsed == [storeDone |-> FALSE, store |-> NoFields,
              daemonDone |-> FALSE,
              daemon |-> [none |-> FALSE, app_id |-> <<>>, version |-> <<>>]]

ParseInit == parseIn \in ParseDocs /\ parseOut = NotParsed
ParseIdle == parseIn = EmptyDoc /\ parseOut = NotParsed

\* parse_details_xml (lines 365-395) applied to the document.
ParseStore ==
    /\ ~parseOut.storeDone
    /\ parseOut' = [parseOut EXCEPT !.storeDone = TRUE,
                                    !.store = parse_details_xml(parseIn)]
    /\ UNCHANGED parseIn
    /\ UNCHANGED parseOthers

\* parse_details (updater.py lines 37-44) applied to a file holding the document.
ParseDaemon ==
    /\ ~parseOut.daemonDone
    /\ parseOut' = [parseOut EXCEPT
           !.daemonDone = TRUE,
           !.daemon = [none    |-> parse_details_none(parseIn),
                       app_id  |-> parse_details(parseIn).app_id,
                       version |-> parse_details(parseIn).version]]
    /\ UNCHANGED parseIn
    /\ UNCHANGED parseOthers

(***************************************************************************)
(* Two fetch threads inside save_icon_to_cache_unique at once: the thread  *)
(* load_cache_then_fetch started and the one on_refresh started, which     *)
(* does not wait for the first.  Each statement that reads or writes the   *)
(* cache directory is one step.                                            *)
(***************************************************************************)
FetchThreads == {"startup", "refresh"}
WorkerContents == { <<1>>, <<2>> }
WorkerBases == { IconStem(<<"p">>, <<"a">>, <<"1">>) }

WorkerIdle(left) ==
    [pc |-> "idle", content |-> <<>>, base |-> <<>>, idx |-> EmptyMap,
     path |-> NoPath, left |-> left]

WorkersInit == iconWorkers = [w \in FetchThreads |-> WorkerIdle(MaxIconJobs)]
WorkersIdle == iconWorkers = [w \in FetchThreads |-> WorkerIdle(0)]

WorkerLog(w, wrote) ==
    [content |-> iconWorkers[w].content, hash |-> icon_hash(iconWorkers[w].content),
     base |-> iconWorkers[w].base,
     path |-> IF wrote THEN iconWorkers[w].path
              ELSE iconWorkers[w].idx[icon_hash(iconWorkers[w].content)],
     wrote |-> wrote,
     target |-> IF wrote THEN iconWorkers[w].path ELSE NoPath,
     before |-> DOMAIN iconFiles]

\* Lines 454-457: the call with icon bytes; load_icon_index reads the file.
WorkerLoad ==
    \E w \in FetchThreads, c \in WorkerContents, b \in WorkerBases :
        /\ iconWorkers[w].pc = "idle"
        /\ iconWorkers[w].left > 0
        /\ iconWorkers' = [iconWorkers EXCEPT ![w] =
               [pc |-> "loaded", content |-> c, base |-> b, idx |-> iconIndex,
                path |-> NoPath, left |-> iconWorkers[w].left - 1]]
        /\ UNCHANGED cacheVars
        /\ UNCHANGED workerOthers

\* Lines 458-470: the hit in the copy of the index returns; otherwise the
\* path is chosen from what the directory holds now.
WorkerPickPath ==
    \E w \in FetchThreads :
        /\ iconWorkers[w].pc = "loaded"
        /\ IF IndexHit(iconWorkers[w].idx, icon_hash(iconWorkers[w].content))
           THEN /\ iconWorkers' = [iconWorkers EXCEPT
                                      ![w] = WorkerIdle(iconWorkers[w].left)]
                /\ cacheLog' = Append(cacheLog, WorkerLog(w, FALSE))
           ELSE /\ iconWorkers' = [iconWorkers EXCEPT
                      ![w].pc = "pathed",
                      ![w].path = IconPath(iconFiles, iconWorkers[w].base)]
                /\ UNCHANGED cacheLog
        /\ UNCHANGED <<iconFiles, iconIndex>>
        /\ UNCHANGED workerOthers

\* Line 472: path.write_bytes(content).
WorkerWriteFile ==
    \E w \in FetchThreads :
        /\ iconWorkers[w].pc = "pathed"
        /\ iconFiles' = [q \in DOMAIN iconFiles \cup {iconWorkers[w].path} |->
                            IF q = iconWorkers[w].path THEN iconWorkers[w].content
                            ELSE iconFiles[q]]
        /\ iconWorkers' = [iconWorkers EXCEPT ![w].pc = "written"]
        /\ UNCHANGED <<iconIndex, cacheLog>>
        /\ UNCHANGED workerOthers

\* Lines 473-476: idx[h] = rel; save_icon_index(idx) writes the thread's copy
\* of the index over the file.
WorkerSaveIndex ==
    \E w \in FetchThreads :
        LET h == icon_hash(iconWorkers[w].content)
        IN  /\ iconWorkers[w].pc = "written"
            /\ iconIndex' = [k \in DOMAIN iconWorkers[w].idx \cup {h} |->
                                IF k = h THEN iconWorkers[w].path
                                ELSE iconWorkers[w].idx[k]]
            /\ cacheLog' = Append(cacheLog, WorkerLog(w, TRUE))
            /\ iconWorkers' = [iconWorkers EXCEPT ![w] = WorkerIdle(iconWorkers[w].left)]
            /\ UNCHANGED iconFiles
            /\ UNCHANGED workerOthers

(***************************************************************************)
(* Lines 705-770 of InstallThread.run statement by statement, with         *)
(* installed_version_for (called by a fetch thread or by open_detail)      *)
(* reading the installation root in between.                               *)
(***************************************************************************)
NotSeen == [seen |-> FALSE, exists |-> FALSE, dir |-> EmptyDir, version |-> <<>>]
ReplaceIdle == instMoved = {} /\ resolverSeen = NotSeen

\* What lines 705-743 leave at the destination when every statement ran.
CompleteDir(info, entries) ==
    WithMetadata(MoveInto(EmptyDir, MovedEntries(entries),
                          DOMAIN MovedEntries(entries)), info)

\* Lines 705-707: rmtree of an existing destination, then mkdir.
ReplaceClear ==
    /\ instPc = "finalizing"
    /\ instPc' = "moving"
    /\ instMoved' = {}
    /\ installRoot' = [d \in DOMAIN installRoot \cup {dest_folder(instInfo)} |->
                          IF d = dest_folder(instInfo)
                          THEN FreshDest(installRoot, d) ELSE installRoot[d]]
    /\ UNCHANGED <<instInfo, instCancelled, instChunksLeft, instArchive, tmpFile,
                   tmpExtractDir, instOutcome, instSignals, instMidCancel, instFd>>
    /\ UNCHANGED instFixed
    /\ UNCHANGED resolverSeen
    /\ UNCHANGED replaceOthers

\* One shutil.move of lines 711-728; a move that raises ends the thread
\* through the outer except.
ReplaceMove ==
    /\ instPc = "moving"
    /\ LET dest == dest_folder(instInfo)
           src  == MovedEntries(tmpExtractDir.entries)
       IN  \E n \in DOMAIN src \ instMoved :
             \/ /\ installRoot' = [installRoot EXCEPT
                       ![dest] = MoveInto(installRoot[dest], src, {n})]
                /\ instMoved' = instMoved \cup {n}
                /\ UNCHANGED <<instPc, tmpFile, tmpExtractDir, instOutcome, instSignals>>
             \/ /\ EndInstall("failed", "Error: e")
                /\ UNCHANGED <<installRoot, instMoved>>
    /\ UNCHANGED <<instInfo, instCancelled, instChunksLeft, instArchive, instMidCancel,
                   instFd>>
    /\ UNCHANGED instFixed
    /\ UNCHANGED resolverSeen
    /\ UNCHANGED replaceOthers

\* Lines 730-770 after the last move: details.xml and README.md are written
\* and success is reported.
ReplaceMetadata ==
    /\ instPc = "moving"
    /\ instMoved = DOMAIN MovedEntries(tmpExtractDir.entries)
    /\ installRoot' = [installRoot EXCEPT ![dest_folder(instInfo)] =
                          WithMetadata(installRoot[dest_folder(instInfo)], instInfo)]
    /\ EndInstall("completed", "Instalado en: dest")
    /\ UNCHANGED <<instInfo, instCancelled, instChunksLeft, instArchive, instMidCancel,
                   instFd>>
    /\ UNCHANGED instFixed
    /\ UNCHANGED replaceVars
    /\ UNCHANGED replaceOthers

\* installed_version_for (lines 397-418) for the entry being installed, run
\* by another thread at any moment.
ResolverRead ==
    /\ instPc \in {"pending", "downloading", "finalizing", "moving", "done"}
    /\ LET r == installed_version_for(instInfo, installRoot)
       IN  resolverSeen' =
              IF r.dest = NoDest THEN [NotSeen EXCEPT !.seen = TRUE]
              ELSE [seen |-> TRUE, exists |-> TRUE, dir |-> installRoot[r.dest],
                    version |-> r.version]
    /\ UNCHANGED <<installRoot, instVars, instMoved>>
    /\ UNCHANGED replaceOthers

(***************************************************************************)
(* The daemon on the store's installation root: on every platform but      *)
(* Windows INSTALL_BASE is the "Flatr Apps" folder daemon_loop walks.      *)
(***************************************************************************)
\* A descriptor both parsers read: an app root with publisher, app and
\* version children.
DocBoth(publisher, app, version) ==
    XmlDoc(Elem(TagApp, <<>>,
        <<Leaf(TagPublisher, publisher), Leaf(TagApp, app), Leaf(TagVersion, version)>>))

RootCatalog ==
    InstallCatalog
      \cup { CatalogItem(SlugA, DocBoth(<<"p">>, <<"x">>, <<"1">>), <<>>, NoPath) }

RootDescriptors ==
    {[status |-> 404, doc |-> EmptyDoc]}
      \cup {[status |-> 200, doc |-> DocBoth(<<"p">>, <<"x">>, v)] :
              v \in {<<"1">>, <<"2">>}}

DetailsBakName == "details.xml.bak"

\* update_app (lines 66-102) on an install directory whose details.xml is a
\* file of the directory itself: rd is the answer to the descriptor request,
\* fr the status of the request for each other file of the directory.
RootUpdate(dir, rd, fr) ==
    LET local  == parse_details(dir[DetailsName].data)
        remote == remote_details(rd)
        files  == {n \in DOMAIN dir : dir[n].kind = "file"
                                      /\ n \notin {DetailsName, DetailsBakName}}
    IN  IF local.app_id = <<>> \/ ~DaemonUpdates(local.version, remote.version)
        THEN dir
        ELSE [n \in DOMAIN dir \cup {DetailsBakName} |->
                 IF n = DetailsBakName THEN dir[DetailsName]
                 ELSE IF n = DetailsName THEN FileEntry(remote.xml)
                 ELSE IF n \in files /\ FetchWrites(fr[n]) THEN FileEntry(RemoteText)
                 ELSE dir[n]]

\* One pass of daemon_loop (lines 120-128) over the installation root.  The
\* backup files of the other files are left out.
RootDaemonPass ==
    /\ daemonTicks < MaxTicks
    /\ daemonTicks' = daemonTicks + 1
    /\ \E rd \in RootDescriptors :
          installRoot' =
             [d \in DOMAIN installRoot |->
                 IF DetailsName \in DOMAIN installRoot[d]
                    /\ installRoot[d][DetailsName].kind = "file"
                 THEN RootUpdate(installRoot[d], rd,
                                 [n \in DOMAIN installRoot[d] |-> 404])
                 ELSE installRoot[d]]
    /\ UNCHANGED <<appFolders, daemonPc, daemonNext, daemonEvents, daemonChanged,
                   daemonChecked, daemonLast, vcRepoList, vcEvents>>
    /\ UNCHANGED <<instVars, replaceVars>>
    /\ UNCHANGED <<cacheVars, verVars, listVars, syncVars, dlgVars, uiVars, parseVars,
                   iconWorkers>>

(***************************************************************************)
(* Installs of the entries of one deduplicated catalog, one after another. *)
(***************************************************************************)
PairNames == { <<"a", " ", "b">>, <<"a", "_", "b">>, <<"x">>, <<"x", ".", "y">> }
PairCatalog ==
    { CatalogItem(SlugA, DocOf(<<"p">>, nm, <<"1">>), <<>>, NoPath) : nm \in PairNames }
PairLists == { DedupFrom(<<e1, e2>>, {}) : e1 \in PairCatalog, e2 \in PairCatalog }

\* GridView.open_detail and AppDetailDialog.on_install (lines 1117-1125,
\* 1013-1027) for entry i of the list, no install running: the thread starts
\* whatever other directories the root holds.
InstallOf ==
    /\ instPc \in {"idle", "done"}
    /\ instReruns < MaxInstalls
    /\ \E i \in 1..Len(syncEmitted) :
          /\ dest_folder(syncEmitted[i]) \notin DOMAIN installRoot
               \/ syncEmitted[i] # instInfo
          /\ instInfo' = syncEmitted[i]
    /\ instReruns' = instReruns + 1
    /\ instPc' = "pending"
    /\ instCancelled' = FALSE
    /\ instMidCancel' = FALSE
    /\ instOutcome' = "none"
    /\ tmpFile' = FALSE
    /\ instFd' = FALSE
    /\ instSignals' = <<>>
    /\ instRootBefore' = installRoot
    /\ UNCHANGED <<instChunksLeft, instArchive, tmpExtractDir, onWindows>>
    /\ UNCHANGED <<installRoot, dlgVars>>
    /\ UNCHANGED instOthers

(***************************************************************************)
(* The store's list, the detail dialog opened on one of its entries, and   *)
(* the periodic version check.  The grid buttons, the dialog and the       *)
(* install thread all hold the dict that is in MainWindow.repo_list.       *)
(***************************************************************************)
ItemOf(e) ==
    [repo |-> e.repo, app |-> e.app, name |-> e.name, publisher |-> e.publisher,
     version |-> e.version, icon_cache_path |-> e.icon_cache_path,
     readme |-> e.readme, details_xml |-> e.details_xml]

\* GridView.open_detail (lines 1117-1125) on entry i of the list: the derived
\* fields of that dict are set from the installation root, then the dialog
\* opens on it.
OpenDetailOf ==
    /\ ~dlgOpen
    /\ instPc = "idle"
    /\ \E i \in 1..Len(vcRepoList) :
        LET e == WithInstallState(vcRepoList[i], installRoot)
        IN  /\ vcRepoList' = [vcRepoList EXCEPT ![i] = e]
            /\ dlgInfo' = ItemOf(e)
            /\ update_install_state(e, installRoot)
    /\ dlgOpen' = TRUE
    /\ UNCHANGED <<installRoot, instVars>>
    /\ UNCHANGED <<appFolders, daemonPc, daemonNext, daemonTicks, daemonEvents,
                   daemonChanged, daemonChecked, daemonLast, vcEvents>>
    /\ UNCHANGED <<cacheVars, verVars, listVars, syncVars, uiVars, parseVars,
                   iconWorkers, replaceVars>>

StoreList ==
    <<WithInstallState(
          CatalogItem(SlugA, DocOf(<<"p">>, <<"x">>, <<"9">>), <<"r">>, NoPath),
          EmptyRoot)>>

(***************************************************************************)
(* Specifications.                                                         *)
(***************************************************************************)
InitCache == CacheInit /\ VerIdle /\ ListIdle /\ SyncIdle /\ RootIdle /\ DlgInit /\ InstInit /\ onWindows = FALSE /\ DaemonIdle /\ UiInit /\ ParseIdle /\ WorkersIdle /\ ReplaceIdle
NextCache == StoreIcon
SpecCache == InitCache /\ [][NextCache]_vars

InitVersion == VerInit /\ CacheIdle /\ ListIdle /\ SyncIdle /\ RootIdle /\ DlgInit /\ InstInit /\ onWindows = FALSE /\ DaemonIdle /\ UiInit /\ ParseIdle /\ WorkersIdle /\ ReplaceIdle
NextVersion == StoreDecide \/ DaemonDecide
SpecVersion == InitVersion /\ [][NextVersion]_vars

InitList == ListInit /\ CacheIdle /\ VerIdle /\ SyncIdle /\ RootIdle /\ DlgInit /\ InstInit /\ onWindows = FALSE /\ DaemonIdle /\ UiInit /\ ParseIdle /\ WorkersIdle /\ ReplaceIdle
NextList == StoreParse \/ QuickParse
SpecList == InitList /\ [][NextList]_vars

InitSync == SyncInit /\ CacheIdle /\ VerIdle /\ ListIdle /\ RootIdle /\ DlgInit /\ InstInit /\ onWindows = FALSE /\ DaemonIdle /\ UiInit /\ ParseIdle /\ WorkersIdle /\ ReplaceIdle
NextSync == FetchList \/ FetchRepoInfo
SpecSync == InitSync /\ [][NextSync]_vars

InitInstall == RootIdle /\ DlgInit /\ InstInit /\ onWindows \in BOOLEAN /\ CacheIdle /\ VerIdle /\ ListIdle /\ SyncIdle /\ DaemonIdle /\ UiInit /\ ParseIdle /\ WorkersIdle /\ ReplaceIdle
NextInstall ==
    \/ OpenDetail \/ CloseDetail \/ OnInstall \/ Cancel \/ StartDownload
    \/ DownloadChunk \/ Extract \/ Finalize \/ OnFinished \/ OnUninstall
SpecInstall == InitInstall /\ [][NextInstall]_vars

\* InstallThread.run on its own: the thread of one catalog entry, started
\* again after it ended.
InitRun ==
    /\ RootIdle /\ DlgInit /\ CacheIdle /\ VerIdle /\ ListIdle /\ SyncIdle
    /\ DaemonIdle /\ UiInit /\ ParseIdle /\ WorkersIdle /\ ReplaceIdle
    /\ onWindows \in BOOLEAN
    /\ instPc = "pending"
    /\ instInfo \in InstallCatalog
    /\ instCancelled = FALSE /\ instChunksLeft = 0 /\ instArchive = BadZip
    /\ tmpFile = FALSE /\ tmpExtractDir = NoTmpDir /\ instOutcome = "none"
    /\ instSignals = <<>> /\ instMidCancel = FALSE /\ instFd = FALSE
    /\ instRootBefore = EmptyRoot /\ instReruns = 0
NextRun ==
    \/ StartDownload \/ DownloadChunk \/ Extract \/ Finalize \/ Cancel \/ RunAgain
SpecRun == InitRun /\ [][NextRun]_vars

InitDaemon ==
    /\ (DaemonInit \/ CheckInit) /\ CacheIdle /\ VerIdle /\ ListIdle /\ SyncIdle /\ RootIdle
    /\ DlgInit /\ InstInit /\ onWindows = FALSE /\ UiInit /\ ParseIdle /\ WorkersIdle /\ ReplaceIdle
NextDaemon == DaemonPass \/ UpdateApp \/ VersionCheck
SpecDaemon == InitDaemon /\ [][NextDaemon]_vars

\* The store from its start: MainWindow.__init__, the fetch thread it starts
\* and the handlers of that thread's signals.
InitStartup ==
    /\ UiInit /\ ParseIdle /\ WorkersIdle /\ ReplaceIdle /\ DaemonIdle /\ CacheIdle /\ VerIdle /\ ListIdle /\ RootIdle
    /\ DlgInit /\ InstInit /\ onWindows = FALSE
    /\ syncPc = "off" /\ syncList = NoList /\ syncRepos = <<>> /\ syncNext = 1
    /\ syncResults = <<>> /\ syncSignal = "none" /\ syncEmitted = <<>>
    /\ syncFetched = <<>>
    /\ catalogCache \in
         { NoCache,
           [present |-> TRUE, entries |-> <<>>],
           [present |-> TRUE,
            entries |-> <<WithInstallState(
                              CatalogItem(SlugA, EmptyDoc, <<>>, NoPath),
                              EmptyRoot)>>] }
NextStartup == Startup \/ FetchList \/ FetchRepoInfo \/ OnFetchSignal
SpecStartup == InitStartup /\ [][NextStartup]_vars

\* The descriptor parsers applied to every document of ParseDocs.
InitParse ==
    /\ ParseInit /\ UiInit /\ WorkersIdle /\ ReplaceIdle /\ DaemonIdle /\ CacheIdle /\ VerIdle /\ ListIdle
    /\ SyncIdle /\ RootIdle /\ DlgInit /\ InstInit /\ onWindows = FALSE
NextParse == ParseStore \/ ParseDaemon
SpecParse == InitParse /\ [][NextParse]_vars

\* Two fetch threads storing icons in an empty cache.
InitWorkers ==
    /\ WorkersInit /\ ReplaceIdle /\ CacheIdle /\ UiInit /\ ParseIdle /\ DaemonIdle /\ VerIdle
    /\ ListIdle /\ SyncIdle /\ RootIdle /\ DlgInit /\ InstInit /\ onWindows = FALSE
NextWorkers == WorkerLoad \/ WorkerPickPath \/ WorkerWriteFile \/ WorkerSaveIndex
SpecWorkers == InitWorkers /\ [][NextWorkers]_vars

\* InstallThread.run with the replacement of the destination in steps and a
\* concurrent reader of the installation root.
NextReplace ==
    \/ StartDownload \/ DownloadChunk \/ Extract \/ ReplaceClear \/ ReplaceMove
    \/ ReplaceMetadata \/ ResolverRead \/ RunAgain
SpecReplace == InitRun /\ [][NextReplace]_vars

\* Installs of one entry and passes of the daemon over the installation root.
InitRoot ==
    /\ RootIdle /\ DlgInit /\ CacheIdle /\ VerIdle /\ ListIdle /\ SyncIdle
    /\ DaemonIdle /\ UiInit /\ ParseIdle /\ WorkersIdle /\ ReplaceIdle
    /\ onWindows = FALSE
    /\ instPc = "pending"
    /\ instInfo \in RootCatalog
    /\ instCancelled = FALSE /\ instChunksLeft = 0 /\ instArchive = BadZip
    /\ tmpFile = FALSE /\ tmpExtractDir = NoTmpDir /\ instOutcome = "none"
    /\ instSignals = <<>> /\ instMidCancel = FALSE /\ instFd = FALSE
    /\ instRootBefore = EmptyRoot /\ instReruns = 0
NextRoot ==
    \/ StartDownload \/ DownloadChunk \/ Extract \/ Finalize \/ RunAgain
    \/ RootDaemonPass
SpecRoot == InitRoot /\ [][NextRoot]_vars

\* Two catalog entries that survived the dedup, installed in any order.
InitPair ==
    /\ RootIdle /\ DlgInit /\ InstInit /\ onWindows = FALSE
    /\ CacheIdle /\ VerIdle /\ ListIdle /\ DaemonIdle /\ UiInit /\ ParseIdle
    /\ WorkersIdle /\ ReplaceIdle
    /\ syncPc = "off" /\ syncList = NoList /\ syncRepos = <<>> /\ syncNext = 1
    /\ syncResults = <<>> /\ syncSignal = "none" /\ syncFetched = <<>>
    /\ catalogCache = NoCache
    /\ syncEmitted \in PairLists
NextPair == InstallOf \/ StartDownload \/ DownloadChunk \/ Extract \/ Finalize
SpecPair == InitPair /\ [][NextPair]_vars

\* The store running: its list loaded, the detail dialog, installs and
\* uninstalls, and the version check timer.
InitStore ==
    /\ RootIdle /\ DlgInit /\ InstInit /\ onWindows = FALSE
    /\ CacheIdle /\ VerIdle /\ ListIdle /\ SyncIdle /\ UiInit /\ ParseIdle
    /\ WorkersIdle /\ ReplaceIdle
    /\ appFolders = <<>> /\ daemonPc = "off" /\ daemonNext = 1 /\ daemonTicks = 0
    /\ daemonEvents = NoEvents /\ daemonChanged = {} /\ daemonLast = NoCall
    /\ daemonChecked = <<>>
    /\ vcRepoList = StoreList
    /\ vcEvents = NoCheck
\* A behaviour holds one version check, the next one the timer starts.
NextVersionCheck == ~vcEvents.checked /\ VersionCheck
NextStore ==
    \/ OpenDetailOf \/ CloseDetail \/ OnInstall \/ StartDownload \/ DownloadChunk
    \/ Extract \/ Finalize \/ OnFinished \/ OnUninstall \/ NextVersionCheck
SpecStore == InitStore /\ [][NextStore]_vars

\* daemon_loop is a sequential loop whose requests time out: a started call
\* returns and the next one is made.
SpecDaemonLive == SpecDaemon /\ WF_vars(UpdateApp) /\ WF_vars(DaemonPass)

(***************************************************************************)
(* Claims.                                                                 *)
(***************************************************************************)

\* C1: for every non-empty byte buffer b and every prior cache state, all
\* calls of save_icon_to_cache_unique with b return the same path, and no
\* call with b after the first writes a file (b is written at most once).
C1_StoreTwiceSamePathOneWrite ==
    \A i, j \in 1..Len(cacheLog) :
        (i < j /\ cacheLog[i].content # <<>>
               /\ cacheLog[i].content = cacheLog[j].content)
        => /\ cacheLog[j].path = cacheLog[i].path
           /\ cacheLog[i].path # NoPath
           /\ ~cacheLog[j].wrote

\* C1 witness: a buffer was stored twice and the first call wrote its file.
C1_Witness ==
    \E i, j \in 1..Len(cacheLog) :
        /\ i < j
        /\ cacheLog[i].content # <<>>
        /\ cacheLog[i].content = cacheLog[j].content
        /\ cacheLog[i].wrote

\* C2: no call writes to a path that already holds a file; a write whose
\* `{publisher}.{app}.{version}.ico` name is taken goes to the first free
\* `_N` name, N = 1, 2, ...; each content hash is written at most once.
C2_NoOverwriteFirstFreeSuffix ==
    /\ \A i \in 1..Len(cacheLog) :
          cacheLog[i].wrote =>
            LET e    == cacheLog[i]
                name == e.base \o IcoExt
            IN  /\ e.target \notin e.before
                /\ name \notin e.before => e.target = name
                /\ name \in e.before =>
                     \E n \in 1..(Cardinality(e.before) + 1) :
                        /\ e.target = IconCandidate(e.base, n)
                        /\ \A m \in 1..(n - 1) :
                              IconCandidate(e.base, m) \in e.before
    /\ \A i, j \in 1..Len(cacheLog) :
          (i < j /\ cacheLog[i].wrote /\ cacheLog[j].wrote)
          => cacheLog[i].hash # cacheLog[j].hash

\* C2 witness: a write found its name and its `_1` name taken and went to `_2`.
C2_Witness ==
    \E i \in 1..Len(cacheLog) :
        /\ cacheLog[i].wrote
        /\ (cacheLog[i].base \o IcoExt) \in cacheLog[i].before
        /\ cacheLog[i].target = IconCandidate(cacheLog[i].base, 2)

\* The digit-run tuple order of the code (the Python tuple order).
C3_TupleLess(local, remote) ==
    TupleGreater(version_tuple(remote), version_tuple(local))

\* C3: wherever update availability is decided (store and daemon), it is true
\* iff both version strings are non-empty and the installed digit-run tuple
\* is strictly less than the catalog tuple.
C3_UpdateIffStrictlyLess ==
    LET expected == /\ verLocal # <<>>
                    /\ verRemote # <<>>
                    /\ C3_TupleLess(verLocal, verRemote)
    IN  /\ verPhase \in {"store", "daemon"} => (verStore <=> expected)
        /\ verPhase = "daemon" => (verDaemon <=> expected)

\* Element-by-element comparison with the shorter tuple padded by zeros.
RECURSIVE C4_PaddedLess(_, _)
C4_PaddedLess(a, b) ==
    IF a = <<>> /\ b = <<>> THEN FALSE
    ELSE LET x == IF a = <<>> THEN 0 ELSE Head(a)
             y == IF b = <<>> THEN 0 ELSE Head(b)
         IN  IF x # y THEN x < y
             ELSE C4_PaddedLess(IF a = <<>> THEN a ELSE Tail(a),
                                IF b = <<>> THEN b ELSE Tail(b))

\* C4: the daemon treats the remote version as newer exactly when the local
\* tuple is less than the remote tuple under zero padding, so versions that
\* differ only by trailing zero components are never treated as newer.
C4_ZeroPaddedComparison ==
    verPhase = "daemon" =>
        (verDaemon <=> (verRemote # <<>> /\
                        C4_PaddedLess(version_tuple(verLocal),
                                      version_tuple(verRemote))))

\* The claimed parse: split on commas and newlines, trim, drop empties.
RECURSIVE C9_Tokens(_, _)
C9_Tokens(s, cur) ==
    LET done == IF Strip(cur) = <<>> THEN <<>> ELSE <<Strip(cur)>>
    IN  IF s = <<>> THEN done
        ELSE IF Head(s) \in {",", "\n", "\r"}
             THEN done \o C9_Tokens(Tail(s), <<>>)
             ELSE C9_Tokens(Tail(s), Append(cur, Head(s)))

\* C9: every list-parsing path yields the body's comma/newline separated
\* tokens, trimmed, without empties, in order.
C9_ListParsing ==
    /\ listPhase \in {"store", "quick"} => slugsStore = C9_Tokens(listBody, <<>>)
    /\ listPhase = "quick" => slugsQuick = C9_Tokens(listBody, <<>>)

C8_Key(e) == <<IF e.app # <<>> THEN e.app ELSE e.name, e.publisher>>

\* The first position of key k in the resolved entries (slug order).
C8_First(k) ==
    CHOOSE i \in 1..Len(syncResults) :
        /\ C8_Key(syncResults[i]) = k
        /\ \A j \in 1..(i - 1) : C8_Key(syncResults[j]) # k

\* C8: the emitted list holds, in slug order, exactly the first resolved entry
\* of every key (appName-or-name, publisher) that is not ("", ""); later
\* entries of a key are dropped whatever their repo; one entry per key.
C8_DedupFirstWins ==
    (syncPc = "done" /\ syncSignal = "finished") =>
        LET keys == {C8_Key(syncResults[i]) : i \in 1..Len(syncResults)}
                        \ {<<<<>>, <<>>>>}
        IN  /\ Len(syncEmitted) = Cardinality(keys)
            /\ \A k \in 1..Len(syncEmitted) :
                  /\ C8_Key(syncEmitted[k]) \in keys
                  /\ syncEmitted[k] = syncResults[C8_First(C8_Key(syncEmitted[k]))]
            /\ \A k, l \in 1..Len(syncEmitted) :
                  k < l => C8_First(C8_Key(syncEmitted[k]))
                             < C8_First(C8_Key(syncEmitted[l]))

\* C8 witness: two resolved entries of different repos share a key and only
\* the first was emitted.
C8_Witness ==
    /\ syncPc = "done"
    /\ syncSignal = "finished"
    /\ \E i, j \in 1..Len(syncResults) :
          /\ i < j
          /\ C8_Key(syncResults[i]) = C8_Key(syncResults[j])
          /\ syncResults[i].repo # syncResults[j].repo
          /\ \E k \in 1..Len(syncEmitted) : syncEmitted[k].repo = syncResults[i].repo
          /\ \A k \in 1..Len(syncEmitted) : syncEmitted[k].repo # syncResults[j].repo

\* C10: a list fetch that fails by network error, by a non-2xx status or by
\* yielding no slug ends the pass with the error signal, never with finished.
C10_ListUnavailableIsError ==
    (syncPc = "done" /\
       (\/ syncList.kind = "exception"
        \/ syncList.status < 200 \/ syncList.status > 299
        \/ C9_Tokens(syncList.body, <<>>) = <<>>))
    => syncSignal = "error"

\* An install operation has just ended in Completed (its finished_install
\* signal is not yet delivered, so nothing else has touched the root).
JustCompleted == instPc = "done" /\ instOutcome = "completed"

\* C5: after a completed install, whatever the root held before, the
\* install-state resolver reports installedVersion equal to the entry's
\* catalog version and updateAvailable false.
C5_InstallRoundTrip ==
    JustCompleted =>
        LET st == ResolveInstallState(instInfo, installRoot)
        IN  /\ st.installed_version = instInfo.version
            /\ ~st.update_available

\* C6: an install cancelled while chunks were still to come ends with no
\* destination directory for the entry and without its temporary archive.
C6_CancelLeavesNothing ==
    (instPc = "done" /\ instMidCancel) =>
        /\ dest_folder(instInfo) \notin DOMAIN installRoot
        /\ ~tmpFile

\* The names the install itself writes into the destination.
C7_Metadata == {DetailsName, ReadmeName}

\* C7: after a completed install of an archive whose only top-level entry is
\* a directory, the destination holds that directory's children (not the
\* directory); otherwise it holds every extracted top-level entry.
C7_WrapperUnwrapped ==
    JustCompleted =>
        LET top  == instArchive.entries
            dest == installRoot[dest_folder(instInfo)]
            one  == Cardinality(DOMAIN top) = 1
                      /\ \A n \in DOMAIN top : top[n].kind = "dir"
        IN  IF one
            THEN \A w \in DOMAIN top :
                    /\ \A c \in DOMAIN top[w].kids :
                          /\ c \in DOMAIN dest
                          /\ c \notin C7_Metadata => dest[c] = top[w].kids[c]
                    /\ DOMAIN dest \subseteq DOMAIN top[w].kids \cup C7_Metadata
            ELSE /\ \A n \in DOMAIN top :
                       /\ n \in DOMAIN dest
                       /\ n \notin C7_Metadata => dest[n] = top[n]
                 /\ DOMAIN dest \subseteq DOMAIN top \cup C7_Metadata

\* C7 witness: a completed install of a wrapper archive put the wrapper's
\* main.py directly into the destination.
C7_Witness ==
    /\ JustCompleted
    /\ DOMAIN instArchive.entries = {"repo-main"}
    /\ "main.py" \in DOMAIN installRoot[dest_folder(instInfo)]

\* The pass ended in this step without a usable list: the request raised, the
\* status was an error, or the body held no slug.
C11_ListUnavailableStep ==
    /\ syncPc = "idle"
    /\ syncPc' = "done"
    /\ \/ syncList'.kind = "exception"
       \/ RaisesForStatus(syncList'.status)
       \/ StoreParseList(syncList'.body) = <<>>

\* C11: a sync pass whose catalog endpoint is unreachable or returns an empty
\* list leaves the catalog cache file exactly as it was before the pass.
C11_CacheUntouchedOnUnavailable ==
    [][C11_ListUnavailableStep => catalogCache' = catalogCache]_vars

\* C12: when a pass finishes, every slug of the list has its entry in the
\* results, whatever its three sub-fetches answered; an entry whose descriptor
\* fetch failed has publisher "unknown" and its slug as name, a failed README
\* fetch leaves the README empty and a failed icon fetch leaves no icon path.
C12_SubFetchFailureKeepsEntry ==
    (syncPc = "done" /\ syncSignal = "finished") =>
        /\ Len(syncResults) = Len(syncRepos)
        /\ \A i \in 1..Len(syncRepos) :
              LET e == syncResults[i]
                  f == syncFetched[i]
              IN  /\ e.repo = syncRepos[i]
                  /\ f.descriptor # "ok" =>
                        e.publisher = Unknown /\ e.name = syncRepos[i]
                  /\ ~f.readme => e.readme = <<>>
                  /\ ~f.icon => e.icon_cache_path = NoPath

\* C13: when an install operation has ended, with whatever outcome, its
\* temporary archive file and its temporary extraction directory are gone,
\* and an outcome other than completed was reported with ok = False and a
\* message.
C13_TempArtifactsRemoved ==
    instPc = "done" =>
        /\ ~tmpFile
        /\ ~tmpExtractDir.present
        /\ instOutcome # "completed" =>
              /\ instSignals # <<>>
              /\ ~instSignals[Len(instSignals)].ok
              /\ instSignals[Len(instSignals)].msg # ""

\* C14: when an install operation has ended in failure, the destination
\* directory does not exist or holds exactly what it held when the operation
\* started.
C14_FailedLeavesDestWhole ==
    (instPc = "done" /\ instOutcome = "failed") =>
        LET dest == dest_folder(instInfo)
        IN  \/ dest \notin DOMAIN installRoot
            \/ /\ dest \in DOMAIN instRootBefore
               /\ installRoot[dest] = instRootBefore[dest]

\* What one install of the entry puts into an empty destination.
C15_Placed == WithMetadata(MovedEntries(instArchive.entries), instInfo)

\* C15: after a completed install the destination holds exactly what this
\* install put there, whatever the destination held before; so an install
\* repeated with the same archive leaves the content of the first.
C15_InstallOverwrites ==
    JustCompleted => installRoot[dest_folder(instInfo)] = C15_Placed

\* A completed install found the destination in place, with an entry of the
\* earlier install that the new archive does not carry.
C15_Witness ==
    /\ JustCompleted
    /\ dest_folder(instInfo) \in DOMAIN instRootBefore
    /\ \E n \in DOMAIN instRootBefore[dest_folder(instInfo)] :
          n \notin DOMAIN installRoot[dest_folder(instInfo)]

\* C16: after a completed install the destination holds a details.xml with
\* the entry's descriptor and a README.md with the entry's README text.
C16_MetadataWritten ==
    JustCompleted =>
        LET dest == installRoot[dest_folder(instInfo)]
        IN  /\ DetailsName \in DOMAIN dest
            /\ dest[DetailsName] = FileEntry(instInfo.details_xml)
            /\ ReadmeName \in DOMAIN dest
            /\ dest[ReadmeName] = FileEntry(TextData(instInfo.readme))

\* C17: whenever no install is running, the installation root holds at most
\* one directory for the (publisher, app) pair of every catalog entry.
C17_OneDirectoryPerApp ==
    instPc \in {"idle", "done"} =>
        \A e \in InstallCatalog :
            Cardinality(GlobVersions(installRoot,
                                     safe_name(OrElse(e.publisher, Unknown)),
                                     safe_name(OrElse(e.app, OrElse(e.name, e.repo)))))
                <= 1

\* C18: at every overwrite of update_app (the descriptor or a walked file)
\* the backup file `<name>.bak` exists and holds the content the file has
\* at that moment, just before it is overwritten.
C18_BackupBeforeOverwrite ==
    \A i \in 1..Len(daemonLast.writes) :
        /\ daemonLast.writes[i].bak # NoData
        /\ daemonLast.writes[i].bak = daemonLast.writes[i].before

\* An update overwrote a file whose backup file held older content.
C18_Witness ==
    /\ daemonLast.updated
    /\ \E i \in 1..Len(daemonLast.writes) : daemonLast.writes[i].file = FileM
    /\ daemonLast.before[BakName(FileM)] # daemonLast.before[FileM]

\* C19: an update_app call deletes no file, leaves every file whose request
\* failed (exception or a status other than 200) with its content, and
\* requests neither a *.bak file nor the descriptor in its per-file loop.
C19_FailedFetchLeavesFile ==
    daemonLast.folder # 0 =>
        /\ \A f \in DOMAIN daemonLast.before : f \in DOMAIN daemonLast.after
        /\ \A f \in daemonLast.fetched :
              /\ daemonLast.fr[f] # 200 => daemonLast.after[f] = daemonLast.before[f]
              /\ ~EndsWith(f, BakSuffix)
              /\ f # DetailsFile

\* An update ran its per-file loop and a request of it failed.
C19_Witness ==
    /\ daemonLast.updated
    /\ \E f \in daemonLast.fetched : daemonLast.fr[f] # 200

\* C20, daemon: a finished pass of daemon_loop emitted one "updated" event per
\* folder it changed, and "no updates" exactly when it changed none.
C20_DaemonPass ==
    (daemonPc = "sleeping" /\ daemonTicks > 0) =>
        /\ Len(daemonEvents.updated) = Cardinality(daemonChanged)
        /\ daemonEvents.no_updates <=> daemonChanged = {}

\* C20, store: a version check emitted one update event per entry of
\* repo_list it changed, and "no updates" exactly when it changed none.
C20_StoreCheck ==
    vcEvents.checked =>
        LET changed == {i \in 1..Len(vcRepoList) : vcRepoList[i] # vcEvents.before[i]}
        IN  /\ Len(vcEvents.updates) = Cardinality(changed)
            /\ vcEvents.no_updates <=> changed = {}

\* C20: every full update-check pass, of the daemon loop and of the store's
\* periodic check, emits exactly one "entry updated" event per entry it
\* changed and a "no updates" event if and only if it changed nothing.
C20_OneEventPerChange == C20_DaemonPass /\ C20_StoreCheck

\* Every folder of the walk had its update_app call when the pass ended, and
\* a folder with a newer remote version was updated whatever the other
\* folders' requests answered.
C21_DaemonChecksAll ==
    /\ \A i \in 1..Len(daemonChecked) :
          /\ daemonChecked[i].folder = i
          /\ daemonChecked[i].newer => daemonChecked[i].updated
    /\ (daemonPc = "sleeping" /\ daemonTicks > 0) =>
          Len(daemonChecked) = Len(appFolders)

\* Every installed entry whose own remote descriptor gave a version other
\* than the installed one has its update signal, whatever the other
\* entries' requests answered.
C21_StoreChecksAll ==
    vcEvents.checked =>
        \A i \in 1..Len(vcEvents.before) :
            LET info   == vcEvents.before[i]
                remote == parse_details_xml(vcEvents.resps[i].doc).version
            IN  (/\ vcEvents.resps[i].kind = "ok"
                 /\ StoreUpdateAvailable(info.installed_version, remote))
                => \E k \in 1..Len(vcEvents.updates) :
                      /\ vcEvents.updates[k].repo = info.repo
                      /\ vcEvents.updates[k].version = remote

\* C21: a remote descriptor that cannot be fetched or parsed only skips its
\* entry: the other entries of the tick are still checked, the tick
\* completes, and the daemon starts its later ticks.
C21_FailureSkipsOneEntry ==
    /\ [](C21_DaemonChecksAll /\ C21_StoreChecksAll)
    /\ (daemonPc = "walking") ~> (daemonPc = "sleeping")
    /\ (daemonPc = "sleeping" /\ daemonTicks < MaxTicks) ~> (daemonPc = "walking")

\* A pass ended in which the first folder's remote descriptor could not be
\* read and the second folder was updated, and it was not the first pass.
C21_Witness ==
    /\ daemonPc = "sleeping"
    /\ daemonTicks = MaxTicks
    /\ Len(daemonChecked) = 2
    /\ daemonChecked[1].failed
    /\ daemonChecked[2].updated

\* C22: from the start of the main window until a fetch completes, a cached
\* catalog that is not empty is what the window shows, whatever the
\* connectivity probes answered.
C22_CacheShownAtStart ==
    (/\ uiStarted
     /\ syncPc # "done"
     /\ catalogCache.present
     /\ catalogCache.entries # <<>>)
    => /\ uiWidget = "grid"
       /\ uiGrid = catalogCache.entries

\* The app element of a descriptor: the root when its tag is app, else the
\* first app child of the root; <<>> when there is none.
AppElementOf(doc) ==
    IF doc.kind # "xml" THEN <<>>
    ELSE IF Lower(doc.root.tag) = TagApp THEN <<doc.root>>
    ELSE ChildrenTagged(doc.root, TagApp)

\* C23: for a document whose app element has a version child the store's
\* parser returns that child's stripped text; for a malformed document both
\* parsers return empty texts; no parser returns None.
C23_VersionOfDescriptor ==
    /\ parseOut.storeDone =>
          /\ \A i \in 1..Len(AppElementOf(parseIn)) :
                (i = 1 /\ ChildrenTagged(AppElementOf(parseIn)[1], TagVersion) # <<>>) =>
                    parseOut.store.version =
                        Strip(ChildrenTagged(AppElementOf(parseIn)[1], TagVersion)[1].text)
          /\ parseIn.kind = "malformed" => parseOut.store = NoFields
    /\ parseOut.daemonDone => ~parseOut.daemon.none

\* The order of the phases of InstallThread.run; extraction is the step from
\* "downloading" to "finalizing".
InstRank(pc) ==
    CASE pc = "pending" -> 1 [] pc = "downloading" -> 2 [] pc = "finalizing" -> 3
      [] pc = "done" -> 4 [] OTHER -> 0

InstRunning == instPc \in {"pending", "downloading", "finalizing"}

\* While the thread runs nothing is reported; when it has ended exactly one
\* finished_install is queued, it carries the outcome, and the message
\* "Cancelado" is that of the cancelled outcome alone.
C24_OneOutcome ==
    /\ InstRunning => (instSignals = <<>> /\ instOutcome = "none")
    /\ instPc = "done" =>
          /\ Len(instSignals) = 1
          /\ instOutcome \in {"completed", "failed", "cancelled"}
          /\ instSignals[1].outcome = instOutcome
          /\ instSignals[1].ok = (instOutcome = "completed")
          /\ (instSignals[1].msg = "Cancelado") = (instOutcome = "cancelled")

\* A cancellation requested while chunks are still to come, or seen by the
\* loop: the thread never extracts or finalizes afterwards.
C24_CancelStops ==
    /\ (instMidCancel /\ InstRunning) => instPc = "downloading"
    /\ (instPc = "done" /\ (instMidCancel \/ instOutcome = "cancelled")) =>
          /\ instOutcome \in {"cancelled", "failed"}
          /\ installRoot = instRootBefore
          /\ tmpExtractDir = NoTmpDir

\* C24: a running install only moves forward through pending, downloading,
\* (extraction,) finalizing; it ends in one outcome reported once; a
\* cancellation seen at a chunk ends it as cancelled, told apart from failed,
\* with no extraction or finalization after it.
C24_ForwardOnly ==
    /\ [](C24_OneOutcome /\ C24_CancelStops)
    /\ [][InstRunning => InstRank(instPc') >= InstRank(instPc)]_vars

C24_Witness ==
    /\ instPc = "done"
    /\ instMidCancel
    /\ instOutcome = "cancelled"
    /\ instSignals[1].msg = "Cancelado"

WorkersQuiet == \A w \in FetchThreads : iconWorkers[w].pc = "idle"

\* C25: with two fetch threads storing icons, every hash a call wrote a file
\* for is in the index once the calls have returned, and no hash is written
\* to two files.
C25_IndexWritesSerialized ==
    /\ WorkersQuiet =>
          \A i \in 1..Len(cacheLog) :
              cacheLog[i].wrote => cacheLog[i].hash \in DOMAIN iconIndex
    /\ \A i, j \in 1..Len(cacheLog) :
          (cacheLog[i].wrote /\ cacheLog[j].wrote /\ cacheLog[i].hash = cacheLog[j].hash)
              => cacheLog[i].target = cacheLog[j].target

\* C26: whenever installed_version_for finds the destination of the running
\* install, the directory is whole: the one that was there before the thread
\* started or the complete new one, never an empty or partly filled one.
C26_ReplacementAtomic ==
    (resolverSeen.seen /\ resolverSeen.exists /\ instOutcome # "failed") =>
        \/ /\ dest_folder(instInfo) \in DOMAIN instRootBefore
           /\ resolverSeen.dir = instRootBefore[dest_folder(instInfo)]
        \/ /\ tmpExtractDir # NoTmpDir \/ instOutcome = "completed"
           /\ resolverSeen.dir = CompleteDir(instInfo, instArchive.entries)

\* f"{pub}.{app_name}." of InstallThread.run: the directory name up to its
\* version component.
DestPrefix(info) ==
    safe_name(OrElse(info.publisher, Unknown)) \o <<".">>
        \o safe_name(OrElse(info.app, info.repo)) \o <<".">>

\* The version component of every install directory of the entry is the
\* sanitized version of the descriptor in it.
C27_NameMatchesDescriptor ==
    \A d \in DOMAIN installRoot :
        StartsWith(d, DestPrefix(instInfo)) =>
            d = DestPrefix(instInfo)
                  \o safe_name(ParseData(DetailsData(installRoot[d])).version)

\* The destination of the entry exists exactly when the resolver reports the
\* entry's version as installed.
C27_ExistsIffResolved ==
    (dest_folder(instInfo) \in DOMAIN installRoot)
        <=> (installed_version_for(instInfo, installRoot).version = instInfo.version)

\* C27: between installs and daemon passes, the version in the directory
\* name is the sanitized version of the directory's details.xml, and the
\* destination exists exactly when the resolver reports its version.
C27_NameAndDescriptorAgree ==
    (instPc = "pending" \/ JustCompleted) =>
        (C27_NameMatchesDescriptor /\ C27_ExistsIffResolved)

\* The entries of the catalog other than the one being installed.
OtherEntries == {i \in 1..Len(syncEmitted) : syncEmitted[i] # instInfo}

\* C28: a completed install leaves the install directory of every other
\* entry of the deduplicated catalog as it was; the entries have distinct
\* destinations; and the glob of one entry matches no other entry's
\* destination.
C28_InstallsKeepApart ==
    /\ \A i, j \in 1..Len(syncEmitted) :
          i # j => dest_folder(syncEmitted[i]) # dest_folder(syncEmitted[j])
    /\ JustCompleted =>
          \A i \in OtherEntries :
              /\ dest_folder(syncEmitted[i]) \in DOMAIN instRootBefore =>
                    /\ dest_folder(syncEmitted[i]) \in DOMAIN installRoot
                    /\ installRoot[dest_folder(syncEmitted[i])]
                          = instRootBefore[dest_folder(syncEmitted[i])]
              /\ dest_folder(instInfo) \notin
                    GlobVersions(installRoot,
                        safe_name(OrElse(syncEmitted[i].publisher, Unknown)),
                        safe_name(OrElse(syncEmitted[i].app,
                                  OrElse(syncEmitted[i].name, syncEmitted[i].repo))))

\* The text of the version child of a descriptor's root, <<>> without one.
RecordedVersion(data) ==
    IF data.kind # "xml" THEN <<>>
    ELSE IF ChildrenTagged(data.root, TagVersion) = <<>> THEN <<>>
    ELSE Strip(ChildrenTagged(data.root, TagVersion)[1].text)

LastLocal == version_tuple(RecordedVersion(daemonLast.before[DetailsFile]))
LastAfter == version_tuple(RecordedVersion(daemonLast.after[DetailsFile]))
LastRemote == version_tuple(remote_details(daemonLast.rd).version)

\* C29: an update_app call never lowers the version tuple of the folder's
\* descriptor; it rewrites the descriptor only for a remote tuple strictly
\* greater than the local one; and for the remote descriptor that last
\* rewrote the folder it changes nothing and emits no event.
C29_NoDowngradeNoRepeat ==
    daemonLast.folder # 0 =>
        /\ ~TupleGreater(LastLocal, LastAfter)
        /\ daemonLast.after[DetailsFile] # daemonLast.before[DetailsFile] =>
              /\ remote_details(daemonLast.rd).version # <<>>
              /\ TupleGreater(LastRemote, LastLocal)
              /\ LastAfter = LastRemote
        /\ daemonLast.rd \in daemonLast.appliedBefore =>
              /\ daemonLast.after = daemonLast.before
              /\ ~daemonLast.updated

C29_Witness ==
    /\ daemonTicks = MaxTicks
    /\ daemonLast.rd \in daemonLast.appliedBefore
    /\ daemonLast.after = daemonLast.before
    /\ \E q \in daemonLast.applied : q[1] = daemonLast.folder

\* C30: at a version check that runs while no install is under way, the
\* installed_version of every entry of the list is what the resolver reports
\* for the installation root at that moment.
C30_ListFollowsRoot ==
    (vcEvents.checked /\ vcEvents.pc = "idle") =>
        \A i \in 1..Len(vcEvents.before) :
            vcEvents.before[i].installed_version = vcEvents.resolved[i]

====
